---- MODULE Spec2Model ----
(***************************************************************************)
(* State-machine model of cookido_agent: the Collection Manager            *)
(* (collections.py), the import pipeline (importer.py), the organize       *)
(* pipeline (organizer.py) and the taxonomy and persisted state            *)
(* (models.py).                                                            *)
(*                                                                         *)
(* Conventions.  A collection name is the sequence of its whitespace-      *)
(* separated tokens, so "<emoji> Verano > Pescados" is                     *)
(* <<"U2600", "Verano", ">", "Pescados">>; the emoji glyphs and the n-tilde *)
(* are written in ASCII ("U2600", "Otono").  Recipe ids and collection ids *)
(* are opaque strings in the program and small naturals here; None (a      *)
(* falsy id) is 0.  A Python dict is a function; a dict is iterated in     *)
(* insertion order, which for the name cache is the order of the gateway   *)
(* listing followed by the creations: ascending collection id.             *)
(***************************************************************************)
EXTENDS Naturals, Integers, Sequences, FiniteSets, TLC

VARIABLES
    tool,               \* which program runs: "import", "organize", or a client of the manager
    run,                \* number of process runs started so far
    pc,                 \* position of the running process
    dry_run,            \* --dry-run of the current run
    export_file,        \* export file argument of the current run
    export_data,        \* content of the export file(s)
    remote,             \* gateway: collection id -> [name, recipes]
    nextId,             \* gateway: next fresh collection id
    state_file,         \* content of STATE_FILE on disk
    state,              \* self.state (ImportState / OrganizeState)
    managed_recipes,    \* CollectionOrganizer.managed_recipes
    collections_cache,  \* CollectionManager._collections_cache: name -> id
    collection_recipes, \* CollectionManager._collection_recipes: id -> set of recipe ids
    todo,               \* the rest of the list the current loop iterates
    inner,              \* the rest of the list an inner loop iterates
    cur,                \* locals of the current loop body
    created,            \* organize_recipes_into_collections: created_collections (local)
    new_assigned,       \* organize_recipes_into_collections: new_assigned (local)
    call,               \* the external call issued by the last step (observation)
    obs                 \* observations of the current run (what the claims speak about)

vars == <<tool, run, pc, dry_run, export_file, export_data, remote, nextId,
          state_file, state, managed_recipes, collections_cache,
          collection_recipes, todo, inner, cur, created, new_assigned, call, obs>>

(***************************************************************************)
(* Bounds of the model                                                     *)
(***************************************************************************)
MaxRecipe == 2      \* recipe ids 1..MaxRecipe
MaxInitCols == 2    \* collections of the account before the first run
MaxId == 4          \* collection ids the gateway can hand out
MaxRuns == 2        \* process runs in one behaviour

Recipes == 1..MaxRecipe
Ids == 1..MaxId
None == 0

(***************************************************************************)
(* Generic helpers                                                         *)
(***************************************************************************)
Min(S) == CHOOSE x \in S : \A y \in S : x <= y

RECURSIVE SetToList(_)
\* list(a_set): the elements in some order; ascending is the order taken here
SetToList(S) == IF S = {} THEN <<>> ELSE <<Min(S)>> \o SetToList(S \ {Min(S)})

ListToSet(l) == {l[i] : i \in DOMAIN l}

\* l[i : i + n]
Slice(l, i, n) == SubSeq(l, i + 1, IF i + n < Len(l) THEN i + n ELSE Len(l))

\* d with d[k] = v (assignment to a dict entry)
DictSet(d, k, v) == [x \in DOMAIN d \cup {k} |-> IF x = k THEN v ELSE d[x]]

\* del d[k]
DictDel(d, k) == [x \in DOMAIN d \ {k} |-> d[x]]

\* d.get(k, default)
DictGet(d, k, default) == IF k \in DOMAIN d THEN d[k] ELSE default

EmptyDict == [x \in {} |-> 0]

(***************************************************************************)
(* Taxonomy (models.py)                                                    *)
(***************************************************************************)
Season == {"Primavera", "Verano", "Otono", "Invierno"}

emoji(s) ==
    CASE s = "Primavera" -> "U1F338"
      [] s = "Verano"    -> "U2600"
      [] s = "Otono"     -> "U1F342"
      [] s = "Invierno"  -> "U2744"

DishType == {"Sopas", "Ensaladas", "Carnes", "Pescados", "Pastas",
             "Arroces", "Postres", "Panes", "Salsas"}

DishTypeEN == {<<"Soups">>, <<"Salads">>, <<"Meats">>, <<"Seafood">>, <<"Pasta">>,
               <<"Rice", "Dishes">>, <<"Desserts">>, <<"Breads">>, <<"Sauces">>}

\* a table in which two dish types share a translation
DISH_TYPE_TRANSLATIONS_shared ==
    [d \in DishType |-> IF d \in {"Pastas", "Panes"} THEN <<"Pasta">> ELSE <<"Meats">>]

DISH_TYPE_TRANSLATIONS ==
    [d \in DishType |->
        CASE d = "Sopas"     -> <<"Soups">>
          [] d = "Ensaladas" -> <<"Salads">>
          [] d = "Carnes"    -> <<"Meats">>
          [] d = "Pescados"  -> <<"Seafood">>
          [] d = "Pastas"    -> <<"Pasta">>
          [] d = "Arroces"   -> <<"Rice", "Dishes">>
          [] d = "Postres"   -> <<"Desserts">>
          [] d = "Panes"     -> <<"Breads">>
          [] d = "Salsas"    -> <<"Sauces">>]

translate_dish_type(spanish) == DISH_TYPE_TRANSLATIONS[spanish]

get_collection_name(season, dish_type) == <<emoji(season), season, ">", dish_type>>

get_flat_collection_name(dish_type) == translate_dish_type(dish_type)

(***************************************************************************)
(* organizer.py: SEASON_PATTERN and _parse_two_level_name                  *)
(***************************************************************************)
NoMatch == <<>>

\* ^.+\s+(Primavera|Verano|Otono|Invierno)\s+>\s+(.+)$ on the token sequence:
\* a non-empty prefix, a season token, the token ">", a non-empty rest.  The
\* leading .+ is greedy, so the match is the one with the longest prefix.
SeasonPositions(name) ==
    {i \in 2..Len(name) : /\ i + 2 <= Len(name)
                          /\ name[i] \in Season
                          /\ name[i + 1] = ">"}

SEASON_PATTERN(name) ==
    IF SeasonPositions(name) = {} THEN NoMatch
    ELSE LET i == CHOOSE p \in SeasonPositions(name) :
                      \A q \in SeasonPositions(name) : q <= p
         IN <<name[i], SubSeq(name, i + 2, Len(name))>>

\* a parser that takes any text after the separator as the dish type
parse_two_level_name_any_dish(name) ==
    LET match == SEASON_PATTERN(name) IN
    IF match = NoMatch THEN NoMatch ELSE <<match[1], match[2][1]>>

\* (season_name, dish_type), or NoMatch for None
parse_two_level_name(name) ==
    LET match == SEASON_PATTERN(name) IN
    IF match = NoMatch THEN NoMatch
    ELSE IF Len(match[2]) = 1 /\ match[2][1] \in DishType
         THEN <<match[1], match[2][1]>>
         ELSE NoMatch

(***************************************************************************)
(* Order of str (code points), as sorted() compares collection names       *)
(***************************************************************************)
\* the tokens of the names the import pipeline sorts, in code-point order
TokenOrder == <<">", "Arroces", "Carnes", "Ensaladas", "Invierno", "Otono", "Panes",
                "Pastas", "Pescados", "Postres", "Primavera", "Salsas", "Sopas",
                "Verano", "U2600", "U2744", "U1F338", "U1F342">>

TokenRank(t) == CHOOSE i \in DOMAIN TokenOrder : TokenOrder[i] = t

RECURSIVE StrLess(_, _)
StrLess(a, b) ==
    IF a = <<>> THEN b # <<>>
    ELSE IF b = <<>> THEN FALSE
    ELSE IF Head(a) = Head(b) THEN StrLess(Tail(a), Tail(b))
    ELSE TokenRank(Head(a)) < TokenRank(Head(b))

RECURSIVE SortedNames_descending(_)
\* the names in descending order
SortedNames_descending(S) ==
    IF S = {} THEN <<>>
    ELSE LET m == CHOOSE x \in S : \A y \in S \ {x} : StrLess(y, x)
         IN <<m>> \o SortedNames_descending(S \ {m})

RECURSIVE SortedNames(_)
\* sorted(names)
SortedNames(S) ==
    IF S = {} THEN <<>>
    ELSE LET m == CHOOSE x \in S : \A y \in S \ {x} : StrLess(x, y)
         IN <<m>> \o SortedNames(S \ {m})

(***************************************************************************)
(* Observation of external calls                                           *)
(***************************************************************************)
\* op: "none", "login", "list", "create", "add", "remove", "delete",
\*     "details" (get_recipe_details), "classify" (the LLM call), "sleep"
\* res: "ok", "raise", "noid" (a create whose response carries no id),
\*      "cut" (the remote effect took place and the process was killed)
CallRec(op, cid, name, rids, res) ==
    [op |-> op, cid |-> cid, name |-> name, rids |-> rids, res |-> res]

NoCall == CallRec("none", None, <<>>, <<>>, "none")

Mutations == {"create", "add", "remove", "delete"}

(***************************************************************************)
(* Remote Collection Gateway (cookidoo_api, spec section 6): each call     *)
(* either takes effect on the account or raises without effect.            *)
(***************************************************************************)
\* outcomes the gateway can produce for each call
CreateOutcomes == IF nextId <= MaxId THEN {"ok", "noid", "raise"} ELSE {"raise"}
MemberOutcomes(cid) == IF cid \in DOMAIN remote THEN {"ok", "raise"} ELSE {"raise"}

\* add_custom_collection(name) -> collection
add_custom_collection(name, out) ==
    IF out = "raise"
    THEN [raised |-> TRUE, id |-> None, remote |-> remote, nextId |-> nextId]
    ELSE [raised |-> FALSE,
          id |-> IF out = "noid" THEN None ELSE nextId,
          remote |-> DictSet(remote, nextId, [name |-> name, recipes |-> {}]),
          nextId |-> nextId + 1]

\* add_recipes_to_custom_collection(id, recipe_ids)
add_recipes_to_custom_collection(rem, cid, batch, out) ==
    IF out = "raise" THEN [raised |-> TRUE, remote |-> rem]
    ELSE [raised |-> FALSE,
          remote |-> [rem EXCEPT ![cid].recipes = @ \cup ListToSet(batch)]]

\* remove_recipe_from_custom_collection(id, recipe_id)
remove_recipe_from_custom_collection(cid, rid, out) ==
    IF out = "raise" THEN [raised |-> TRUE, remote |-> remote]
    ELSE [raised |-> FALSE, remote |-> [remote EXCEPT ![cid].recipes = @ \ {rid}]]

\* remove_custom_collection(id)
remove_custom_collection(cid, out) ==
    IF out = "raise" THEN [raised |-> TRUE, remote |-> remote]
    ELSE [raised |-> FALSE, remote |-> DictDel(remote, cid)]

\* get_custom_collections(page), all pages concatenated: the collections in
\* listing order, each with its recipes nested in chapters
get_custom_collections ==
    [i \in 1..Cardinality(DOMAIN remote) |->
        LET cid == SetToList(DOMAIN remote)[i] IN
        [id |-> cid, name |-> remote[cid].name,
         chapters |-> <<[recipes |-> SetToList(remote[cid].recipes)]>>]]

(***************************************************************************)
(* Collection Manager (collections.py)                                     *)
(***************************************************************************)
RECURSIVE FlattenChapters(_)
FlattenChapters(chapters) ==
    IF chapters = <<>> THEN <<>>
    ELSE Head(chapters).recipes \o FlattenChapters(Tail(chapters))

\* CollectionManager._extract_recipe_ids
extract_recipe_ids(collection) == FlattenChapters(collection.chapters)

RECURSIVE LoadInto(_, _, _)
\* the loop of load_existing_collections over the listed collections
LoadInto(cols, cache, recs) ==
    IF cols = <<>> THEN [cache |-> cache, recipes |-> recs]
    ELSE LET col == Head(cols) IN
         IF col.name # <<>> /\ col.id # None
         THEN LoadInto(Tail(cols),
                       DictSet(cache, col.name, col.id),
                       DictSet(recs, col.id, ListToSet(extract_recipe_ids(col))))
         ELSE LoadInto(Tail(cols), cache, recs)

\* CollectionManager() followed by load_existing_collections()
load_existing_collections == LoadInto(get_custom_collections, EmptyDict, EmptyDict)

\* outcomes of the gateway call ensure_collection(name) makes, if it makes one
EnsureOutcomes(name) ==
    IF name \in DOMAIN collections_cache THEN {"none"} ELSE CreateOutcomes

\* CollectionManager.ensure_collection(name): the returned id, the caches and the
\* account after the call, and whether the call raised
ensure_collection(name, out) ==
    IF name \in DOMAIN collections_cache
    THEN [raised |-> FALSE, ret |-> collections_cache[name],
          cache |-> collections_cache, recipes |-> collection_recipes,
          remote |-> remote, nextId |-> nextId, call |-> NoCall]
    ELSE LET new_col == add_custom_collection(name, out)
             col_id == new_col.id
         IN [raised |-> new_col.raised, ret |-> col_id,
             cache |-> IF ~new_col.raised /\ col_id # None
                       THEN DictSet(collections_cache, name, col_id)
                       ELSE collections_cache,
             recipes |-> IF ~new_col.raised /\ col_id # None
                         THEN DictSet(collection_recipes, col_id, {})
                         ELSE collection_recipes,
             remote |-> new_col.remote, nextId |-> new_col.nextId,
             call |-> CallRec("create", None, name, <<>>, out)]

batch_size == 50

\* a manager that submits every id it is given
NewIds_unfiltered(recs, cid, recipe_ids) == recipe_ids

\* add_recipes_to_collection: new_ids = [rid for rid in recipe_ids if rid not in existing]
NewIds(recs, cid, recipe_ids) ==
    SelectSeq(recipe_ids, LAMBDA rid : rid \notin DictGet(recs, cid, {}))

\* a loop over the batches that ends at the first batch the gateway refuses
AddBatch_until_error(recs, rem, cid, rest, out) ==
    LET batch == Slice(rest, 0, batch_size)
        r == add_recipes_to_custom_collection(rem, cid, batch, out)
    IN [recipes |-> IF r.raised THEN recs
                    ELSE DictSet(recs, cid, DictGet(recs, cid, {}) \cup ListToSet(batch)),
        remote |-> r.remote,
        added |-> IF r.raised THEN 0 ELSE Len(batch),
        rest |-> IF r.raised THEN <<>> ELSE Slice(rest, batch_size, Len(rest)),
        call |-> CallRec("add", cid, <<>>, batch, out)]

\* add_recipes_to_collection: one turn of the loop over the batches of new_ids
\* (rest: new_ids[i:]), the gateway call of the batch having outcome out
AddBatch(recs, rem, cid, rest, out) ==
    LET batch == Slice(rest, 0, batch_size)
        r == add_recipes_to_custom_collection(rem, cid, batch, out)
    IN [recipes |-> IF r.raised THEN recs
                    ELSE DictSet(recs, cid, DictGet(recs, cid, {}) \cup ListToSet(batch)),
        remote |-> r.remote,
        added |-> IF r.raised THEN 0 ELSE Len(batch),
        rest |-> Slice(rest, batch_size, Len(rest)),
        call |-> CallRec("add", cid, <<>>, batch, out)]

\* a removal that updates the cache before the gateway has answered
remove_recipe_from_collection_eager(cid, rid, out) ==
    LET r == remove_recipe_from_custom_collection(cid, rid, out) IN
    [ret |-> ~r.raised,
     recipes |-> IF cid \in DOMAIN collection_recipes
                 THEN [collection_recipes EXCEPT ![cid] = @ \ {rid}]
                 ELSE collection_recipes,
     remote |-> r.remote,
     call |-> CallRec("remove", cid, <<>>, <<rid>>, out)]

\* CollectionManager.remove_recipe_from_collection(collection_id, recipe_id)
remove_recipe_from_collection(cid, rid, out) ==
    LET r == remove_recipe_from_custom_collection(cid, rid, out) IN
    [ret |-> ~r.raised,
     recipes |-> IF ~r.raised /\ cid \in DOMAIN collection_recipes
                 THEN [collection_recipes EXCEPT ![cid] = @ \ {rid}]
                 ELSE collection_recipes,
     remote |-> r.remote,
     call |-> CallRec("remove", cid, <<>>, <<rid>>, out)]

\* CollectionManager.delete_collection(collection_id)
delete_collection(cid, out) ==
    LET r == remove_custom_collection(cid, out)
        names == {n \in DOMAIN collections_cache : collections_cache[n] = cid}
    IN [ret |-> ~r.raised,
        cache |-> IF ~r.raised /\ names # {}
                  THEN DictDel(collections_cache, CHOOSE n \in names : TRUE)
                  ELSE collections_cache,
        recipes |-> IF ~r.raised THEN DictDel(collection_recipes, cid)
                    ELSE collection_recipes,
        remote |-> r.remote,
        call |-> CallRec("delete", cid, <<>>, <<>>, out)]

(***************************************************************************)
(* The account before the first run, and the state common to all programs  *)
(***************************************************************************)
\* names of the collections an account may hold before the first run
InitNames == <<get_collection_name("Otono", "Carnes"),
               get_collection_name("Verano", "Carnes"),
               <<"Meats">>,
               <<"Mis", "recetas", "favoritas">>,
               <<"[Managed]", "Ideas", "sencillas">>>>

\* the account holding the collections InitNames[i], i in idx, with the given members
Account(idx, members) ==
    [cid \in 1..Cardinality(idx) |->
        [name |-> InitNames[SetToList(idx)[cid]],
         recipes |-> members[SetToList(idx)[cid]]]]

Accounts(candidates) ==
    {Account(idx, members) :
        idx \in {i \in SUBSET candidates : Cardinality(i) <= MaxInitCols},
        members \in [candidates -> SUBSET Recipes]}

NoFile == [kind |-> "absent"]

\* a record of one manager operation, as its caller sees it
OpRec(op, name, cid, rids, existing, submitted, ok, ret, prior) ==
    [op |-> op, name |-> name, cid |-> cid, rids |-> rids, existing |-> existing,
     submitted |-> submitted, ok |-> ok, ret |-> ret, prior |-> prior]

NoOp == OpRec("none", <<>>, None, <<>>, {}, <<>>, TRUE, None, <<>>)

\* observations: the last manager operation (prior: for ensure_collection, what
\* the latest earlier call for the name returned; for add_recipes_to_collection,
\* <<ok, number of ids submitted>> of the operation just before it when that
\* was the same call with the same input); for each name, what the latest ensure_collection that returned has
\* returned (<<id, whether it issued a create call>>, forgotten when the
\* collection is deleted); the names load_existing_collections
\* recorded; and of the current pipeline run: the state file and the account
\* when the run started, whether every external call so far succeeded, the
\* recipes get_recipe_details was called for, the recipes of an add call that
\* failed, the state the run loaded; and of the run before it: how it ended,
\* whether every external call of it succeeded, its export file, its mode and
\* the recipes it sent to the classifier without getting a valid classification;
\* the recipes the current run sent to the classifier, in order, and those of
\* them a response carried a valid classification for
InitObs == [last |-> NoOp, rets |-> EmptyDict, known |-> {},
            start_file |-> NoFile, start_remote |-> EmptyDict, run_ok |-> TRUE,
            attempted |-> {}, add_failed |-> {}, loaded |-> [export_file |-> "A"],
            sent |-> <<>>, answered |-> {},
            prev |-> [pc |-> "idle", run_ok |-> TRUE, export_file |-> "A",
                      dry_run |-> FALSE, unanswered |-> {}]]

\* the state before the first run, but for the state file
InitRun ==
    /\ run = 0
    /\ pc = "idle"
    /\ dry_run = FALSE
    /\ export_file = "A"
    /\ nextId = Cardinality(DOMAIN remote) + 1
    /\ state = [export_file |-> "A"]
    /\ managed_recipes = {}
    /\ collections_cache = EmptyDict
    /\ collection_recipes = EmptyDict
    /\ todo = <<>>
    /\ inner = <<>>
    /\ cur = [x \in {} |-> 0]
    /\ created = EmptyDict
    /\ new_assigned = {}
    /\ call = NoCall
    /\ obs = InitObs

\* the state before the first run, no run having left a state file
InitCommon == InitRun /\ state_file = NoFile

(***************************************************************************)
(* A client of the Collection Manager: one manager (one cache lifetime),   *)
(* any sequence of its operations, any outcome of each gateway call        *)
(***************************************************************************)
ClientNames == {InitNames[3]}
\* the ids the client passes: those the manager knows, and None
ClientIds == DOMAIN collection_recipes \cup {None}
\* the recipe lists the client passes: one or two ids, also a repeated id
ClientLists == {<<r>> : r \in Recipes} \cup {<<r, q>> : r \in Recipes, q \in Recipes}

InitManager ==
    /\ tool = "manager"
    /\ export_data = [all_recipes |-> <<>>, has_managed |-> FALSE, managed |-> <<>>]
    /\ remote \in Accounts({3})
    /\ InitCommon

pipeline_vars == <<tool, run, dry_run, export_file, export_data, state_file, state,
                   managed_recipes, created, new_assigned>>

\* manager = CollectionManager(cookidoo); await manager.load_existing_collections()
MgrLoad ==
    /\ tool \in {"manager", "batches"} /\ pc = "idle"
    /\ LET m == load_existing_collections IN
        /\ collections_cache' = m.cache
        /\ collection_recipes' = m.recipes
        /\ obs' = [obs EXCEPT !.known = DOMAIN m.cache]
    /\ pc' = "mgr"
    /\ call' = CallRec("list", None, <<>>, <<>>, "ok")
    /\ UNCHANGED <<pipeline_vars, remote, nextId, todo, inner, cur>>

\* await manager.ensure_collection(name)
MgrEnsure ==
    /\ tool = "manager" /\ pc = "mgr"
    /\ \E name \in ClientNames : \E out \in EnsureOutcomes(name) :
        LET r == ensure_collection(name, out) IN
        /\ collections_cache' = r.cache
        /\ collection_recipes' = r.recipes
        /\ remote' = r.remote
        /\ nextId' = r.nextId
        /\ call' = r.call
        /\ obs' = [obs EXCEPT
                !.last = OpRec("ensure", name, None, <<>>, {}, <<>>, ~r.raised, r.ret,
                               DictGet(obs.rets, name, <<>>)),
                !.rets = IF r.raised THEN @
                         ELSE DictSet(@, name, <<r.ret, r.call.op = "create">>)]
    /\ UNCHANGED <<pipeline_vars, pc, todo, inner, cur>>

\* await manager.add_recipes_to_collection(collection_id, recipe_ids), up to the
\* first gateway call (or to the return, when there is nothing new to add)
MgrAddBegin ==
    /\ tool = "manager" /\ pc = "mgr"
    /\ \E cid \in ClientIds, recipe_ids \in ClientLists :
        LET new_ids == NewIds(collection_recipes, cid, recipe_ids)
            same == /\ obs.last.op = "add" /\ obs.last.cid = cid
                    /\ obs.last.rids = recipe_ids
            op == OpRec("add", <<>>, cid, recipe_ids,
                        DictGet(collection_recipes, cid, {}), <<>>, TRUE, 0,
                        IF same THEN <<obs.last.ok, Len(obs.last.submitted)>> ELSE <<>>)
        IN /\ obs' = [obs EXCEPT !.last = op]
           /\ inner' = new_ids
           /\ cur' = [collection_id |-> cid, added_count |-> 0]
           /\ pc' = IF new_ids = <<>> THEN "mgr" ELSE "mgr_add"
    /\ call' = NoCall
    /\ UNCHANGED <<pipeline_vars, remote, nextId, collections_cache,
                   collection_recipes, todo>>

\* one batch of add_recipes_to_collection, and its return after the last one
MgrAddBatch ==
    /\ tool = "manager" /\ pc = "mgr_add"
    /\ \E out \in MemberOutcomes(cur.collection_id) :
        LET r == AddBatch(collection_recipes, remote, cur.collection_id, inner, out) IN
        /\ collection_recipes' = r.recipes
        /\ remote' = r.remote
        /\ call' = r.call
        /\ inner' = r.rest
        /\ cur' = [cur EXCEPT !.added_count = @ + r.added]
        /\ obs' = [obs EXCEPT !.last.submitted = @ \o r.call.rids,
                              !.last.ok = @ /\ out = "ok",
                              !.last.ret = cur.added_count + r.added]
        /\ pc' = IF r.rest = <<>> THEN "mgr" ELSE "mgr_add"
    /\ UNCHANGED <<pipeline_vars, nextId, collections_cache, todo>>

\* await manager.remove_recipe_from_collection(collection_id, recipe_id)
MgrRemove ==
    /\ tool = "manager" /\ pc = "mgr"
    /\ \E cid \in ClientIds, rid \in Recipes : \E out \in MemberOutcomes(cid) :
        LET r == remove_recipe_from_collection(cid, rid, out) IN
        /\ collection_recipes' = r.recipes
        /\ remote' = r.remote
        /\ call' = r.call
        /\ obs' = [obs EXCEPT
                !.last = OpRec("remove", <<>>, cid, <<rid>>,
                               DictGet(collection_recipes, cid, {}), <<>>, r.ret, r.ret, <<>>)]
    /\ UNCHANGED <<pipeline_vars, pc, nextId, collections_cache, todo, inner, cur>>

\* await manager.delete_collection(collection_id)
MgrDelete ==
    /\ tool = "manager" /\ pc = "mgr"
    /\ \E cid \in ClientIds : \E out \in MemberOutcomes(cid) :
        LET r == delete_collection(cid, out)
            gone == DOMAIN collections_cache \ DOMAIN r.cache
        IN
        /\ collections_cache' = r.cache
        /\ collection_recipes' = r.recipes
        /\ remote' = r.remote
        /\ call' = r.call
        /\ obs' = [obs EXCEPT
                !.last = OpRec("delete", <<>>, cid, <<>>,
                               DictGet(collection_recipes, cid, {}), <<>>, r.ret, r.ret, <<>>),
                !.rets = [n \in DOMAIN @ \ gone |-> @[n]],
                !.known = @ \ gone]
    /\ UNCHANGED <<pipeline_vars, pc, nextId, todo, inner, cur>>

NextManager == MgrLoad \/ MgrEnsure \/ MgrAddBegin \/ MgrAddBatch \/ MgrRemove \/ MgrDelete

SpecManager == InitManager /\ [][NextManager]_vars

(***************************************************************************)
(* A client that adds, once, a long list of recipes to one collection      *)
(* (collections.py add_recipes_to_collection with more ids than one batch) *)
(***************************************************************************)
\* bound of the length of the lists the client passes
MaxAddLen == 103

\* the lists the client passes: 1..n in ascending and in descending order
LongLists ==
    {[i \in 1..n |-> i] : n \in 1..MaxAddLen}
    \cup {[i \in 1..n |-> n + 1 - i] : n \in 1..MaxAddLen}

\* the members the collection may have before the manager loads it
MembersBefore == {{}, {1}, {batch_size, batch_size + 1}}

InitBatches ==
    /\ tool = "batches"
    /\ export_data = [all_recipes |-> <<>>, has_managed |-> FALSE, managed |-> <<>>]
    /\ remote \in {Account({3}, [i \in {3} |-> members]) : members \in MembersBefore}
    /\ InitCommon

\* await manager.add_recipes_to_collection(collection_id, recipe_ids), up to the
\* first gateway call (or to the return, when there is nothing new to add);
\* cur.batches records the batches submitted and the outcome of each
BatchesBegin ==
    /\ tool = "batches" /\ pc = "mgr" /\ obs.last.op = "none"
    /\ \E cid \in ClientIds, recipe_ids \in LongLists :
        LET new_ids == NewIds(collection_recipes, cid, recipe_ids) IN
        /\ obs' = [obs EXCEPT !.last =
                        OpRec("add", <<>>, cid, recipe_ids,
                              DictGet(collection_recipes, cid, {}), <<>>, TRUE, 0, <<>>)]
        /\ inner' = new_ids
        /\ cur' = [collection_id |-> cid, added_count |-> 0, batches |-> <<>>]
        /\ pc' = IF new_ids = <<>> THEN "mgr" ELSE "mgr_add"
    /\ call' = NoCall
    /\ UNCHANGED <<pipeline_vars, remote, nextId, collections_cache,
                   collection_recipes, todo>>

\* one batch of add_recipes_to_collection, and its return after the last one
BatchesAdd ==
    /\ tool = "batches" /\ pc = "mgr_add"
    /\ \E out \in MemberOutcomes(cur.collection_id) :
        LET r == AddBatch(collection_recipes, remote, cur.collection_id, inner, out) IN
        /\ collection_recipes' = r.recipes
        /\ remote' = r.remote
        /\ call' = r.call
        /\ inner' = r.rest
        /\ cur' = [cur EXCEPT !.added_count = @ + r.added,
                              !.batches = Append(@, [rids |-> r.call.rids, res |-> out])]
        /\ obs' = [obs EXCEPT !.last.submitted = @ \o r.call.rids,
                              !.last.ok = @ /\ out = "ok",
                              !.last.ret = cur.added_count + r.added]
        /\ pc' = IF r.rest = <<>> THEN "mgr" ELSE "mgr_add"
    /\ UNCHANGED <<pipeline_vars, nextId, collections_cache, todo>>

NextBatches == MgrLoad \/ BatchesBegin \/ BatchesAdd

SpecBatches == InitBatches /\ [][NextBatches]_vars

(***************************************************************************)
(* Persisted state (models.py ImportState, importer.py _load_state and     *)
(* _save_state).  A JSON object is a function on its keys.                 *)
(***************************************************************************)
ExportFiles == {"A", "B"}

\* ImportState(export_file=...)
NewImportState(f) ==
    [export_file |-> f, fetched_recipes |-> EmptyDict, classifications |-> EmptyDict,
     created_collections |-> EmptyDict, assigned_recipes |-> {}]

\* ImportState.to_dict
ImportState_to_dict(s) ==
    [export_file |-> s.export_file,
     fetched_recipes |-> s.fetched_recipes,
     classifications |-> s.classifications,
     created_collections |-> s.created_collections,
     assigned_recipes |-> SetToList(s.assigned_recipes)]

\* a from_dict that forgets the assigned recipes
ImportState_from_dict_unassigned(data) ==
    [export_file |-> data.export_file,
     fetched_recipes |-> DictGet(data, "fetched_recipes", EmptyDict),
     classifications |-> DictGet(data, "classifications", EmptyDict),
     created_collections |-> DictGet(data, "created_collections", EmptyDict),
     assigned_recipes |-> {}]

\* ImportState.from_dict
ImportState_from_dict(data) ==
    [export_file |-> data.export_file,
     fetched_recipes |-> DictGet(data, "fetched_recipes", EmptyDict),
     classifications |-> DictGet(data, "classifications", EmptyDict),
     created_collections |-> DictGet(data, "created_collections", EmptyDict),
     assigned_recipes |-> ListToSet(DictGet(data, "assigned_recipes", <<>>))]

\* a loader that resumes from whatever state file it finds
import_load_state_any(file, f) ==
    IF file.kind = "json" THEN ImportState_from_dict(file.data) ELSE NewImportState(f)

\* a loader that starts every run afresh
import_load_state_fresh(file, f) == NewImportState(f)

\* RecipeImporter._load_state
import_load_state(file, f) ==
    IF file.kind = "json" /\ DictGet(file.data, "export_file", "") = f
    THEN ImportState_from_dict(file.data)
    ELSE NewImportState(f)

\* RecipeImporter._save_state: the file is rewritten whole
import_save_state(s) == [kind |-> "json", data |-> ImportState_to_dict(s)]

(***************************************************************************)
(* Recipe details and the classifier (importer.py, classifier.py)          *)
(***************************************************************************)
\* get_recipe_details(recipe_id): the detail object of the recipe; an
\* ingredient text is the sequence of its comma-separated parts
get_recipe_details(rid) ==
    [name |-> <<"Receta", rid>>,
     ingredients |-> IF rid = 1 THEN <<<<"merluza", "en", "lomos">>, <<"sal">>>>
                     ELSE <<<<"ternera">>>>]

RECURSIVE FirstParts(_)
FirstParts(items) ==
    IF items = <<>> THEN <<>> ELSE <<Head(Head(items))>> \o FirstParts(Tail(items))

\* RecipeImporter._summarize_ingredients (flat ingredient list of texts)
summarize_ingredients(details) ==
    LET ingredients == FirstParts(Slice(details.ingredients, 0, 10)) IN
    IF ingredients = <<>> THEN <<"No ingredients found">>
    ELSE Slice(ingredients, 0, 8)

\* the recipe_data dict of _fetch_recipe_details
RecipeData(rid, details) ==
    [recipe_id |-> rid, name |-> details.name,
     ingredients_summary |-> summarize_ingredients(details)]

\* a batch size of one recipe more
BATCH_SIZE_and_one == 20 + 1

BATCH_SIZE == 20

\* what the model answers for a recipe, as an item of the JSON array
LlmItem(rid) ==
    IF rid = 1
    THEN [id |-> rid, season |-> "Verano", dish_type |-> "Pescados", confidence |-> 9]
    ELSE [id |-> rid, season |-> "Otono", dish_type |-> "Carnes"]

\* an item whose season is outside the enumeration
LlmBadItem(rid) == [id |-> rid, season |-> "Summer", dish_type |-> "Carnes"]

\* an item for a recipe that is not in the batch
LlmForeignItem == [id |-> 0, season |-> "Verano", dish_type |-> "Sopas"]

RECURSIVE LlmItems(_, _)
LlmItems(batch, good) ==
    IF batch = <<>> THEN <<LlmForeignItem>>
    ELSE <<IF Head(batch) \in good THEN LlmItem(Head(batch)) ELSE LlmBadItem(Head(batch))>>
         \o LlmItems(Tail(batch), good)

\* the responses of the LLM service to a batch: an error of the call, a text
\* that is not JSON, or a JSON array with a valid item for some of the
\* recipes, an invalid one for the others and an item with an unknown id
LlmResponses(batch) ==
    {[kind |-> "raise", items |-> <<>>], [kind |-> "malformed", items |-> <<>>]}
    \cup {[kind |-> "json", items |-> LlmItems(batch, good)] :
              good \in SUBSET ListToSet(batch)}

\* the items of a response that name a recipe of the batch and carry a season
\* and a dish type of the enumerations
ValidItems(items, batch) ==
    SelectSeq(items, LAMBDA c :
        /\ c.id \in ListToSet(batch)
        /\ c.season \in {"Primavera", "Verano", "Otono", "Invierno"}
        /\ c.dish_type \in {"Sopas", "Ensaladas", "Carnes", "Pescados", "Pastas",
                            "Arroces", "Postres", "Panes", "Salsas"})

RECURSIVE ConvertItems_any_value(_, _)
\* a conversion that takes the season and the dish type as the service gave them
ConvertItems_any_value(items, recipe_map) ==
    IF items = <<>> THEN <<>>
    ELSE LET c == Head(items)
             recipe_id == c.id
         IN IF recipe_id \notin DOMAIN recipe_map
            THEN ConvertItems_any_value(Tail(items), recipe_map)
            ELSE <<[recipe_id |-> recipe_id,
                    recipe_name |-> recipe_map[recipe_id].name,
                    season |-> c.season,
                    dish_type |-> c.dish_type,
                    confidence |-> DictGet(c, "confidence", 8)]>>
                 \o ConvertItems_any_value(Tail(items), recipe_map)

RECURSIVE ConvertItems(_, _)
\* classify_batch: the loop over classifications_data
ConvertItems(items, recipe_map) ==
    IF items = <<>> THEN <<>>
    ELSE LET c == Head(items)
             recipe_id == c.id
         IN IF recipe_id \notin DOMAIN recipe_map THEN ConvertItems(Tail(items), recipe_map)
            ELSE IF c.season \in Season /\ c.dish_type \in DishType
                 THEN <<[recipe_id |-> recipe_id,
                         recipe_name |-> recipe_map[recipe_id].name,
                         season |-> c.season,
                         dish_type |-> c.dish_type,
                         confidence |-> DictGet(c, "confidence", 8)]>>
                      \o ConvertItems(Tail(items), recipe_map)
                 ELSE ConvertItems(Tail(items), recipe_map)

\* RecipeClassifier.classify_batch(recipes) on the response the service gave
\* (recipes: the RecipeDetails of the batch, as a dict by recipe id)
classify_batch(recipe_map, response) ==
    IF response.kind = "malformed" THEN <<>>
    ELSE ConvertItems(response.items, recipe_map)

RECURSIVE StoreResults_replacing(_, _)
\* a callback that keeps the classifications of the latest batch only
StoreResults_replacing(classifications, results) ==
    IF results = <<>> THEN EmptyDict
    ELSE DictSet(StoreResults_replacing(classifications, Tail(results)),
                 Head(results).recipe_id, Head(results))

RECURSIVE StoreResults(_, _)
\* on_batch_complete: self.state.classifications[c.recipe_id] = c.to_dict()
StoreResults(classifications, results) ==
    IF results = <<>> THEN classifications
    ELSE StoreResults(DictSet(classifications, Head(results).recipe_id, Head(results)),
                      Tail(results))

(***************************************************************************)
(* Import pipeline (importer.py RecipeImporter, collections.py             *)
(* organize_recipes_into_collections)                                      *)
(***************************************************************************)
Terminal == {"idle", "done", "error", "interrupted"}

manager_vars == <<collections_cache, collection_recipes>>
local_vars == <<todo, inner, cur, created, new_assigned>>
gateway_vars == <<remote, nextId>>
config_vars == <<tool, run, dry_run, export_file, export_data>>

StartObs == [obs EXCEPT !.start_file = state_file, !.start_remote = remote,
                        !.run_ok = TRUE, !.attempted = {}, !.add_failed = {},
                        !.sent = <<>>, !.answered = {},
                        !.prev = [pc |-> pc, run_ok |-> obs.run_ok,
                                  export_file |-> export_file, dry_run |-> dry_run,
                                  unanswered |-> ListToSet(obs.sent) \ obs.answered]]

\* obs after an external call with result res
Seen(res) == [obs EXCEPT !.run_ok = @ /\ res = "ok"]

\* a run() that logs in whatever the export lists
AfterLoadExport_always_login(recipe_ids) == "login"

\* run(): "if not recipe_ids: return"
AfterLoadExport(recipe_ids) == IF recipe_ids = <<>> THEN "done" ELSE "login"

\* RecipeImporter(...) and run() up to the login
ImportStart ==
    /\ tool = "import" /\ pc \in Terminal /\ run < MaxRuns
    /\ run' = run + 1
    /\ \E d \in BOOLEAN, f \in ExportFiles :
        /\ dry_run' = d
        /\ export_file' = f
        /\ state' = import_load_state(state_file, f)
    /\ pc' = AfterLoadExport(export_data.all_recipes)
    /\ collections_cache' = EmptyDict
    /\ collection_recipes' = EmptyDict
    /\ todo' = <<>> /\ inner' = <<>> /\ cur' = EmptyDict
    /\ created' = EmptyDict /\ new_assigned' = {}
    /\ call' = NoCall
    /\ obs' = [StartObs EXCEPT !.loaded = state']
    /\ UNCHANGED <<tool, export_data, gateway_vars, state_file, managed_recipes>>

\* await cookidoo.login(), then the start of the first stage
Login ==
    /\ pc = "login"
    /\ \E out \in {"ok", "raise"} :
        /\ call' = CallRec("login", None, <<>>, <<>>, out)
        /\ obs' = Seen(out)
        /\ pc' = IF out = "raise" THEN "error"
                 ELSE IF tool = "import" THEN "fetch_begin" ELSE "load"
    /\ UNCHANGED <<config_vars, gateway_vars, state_file, state, managed_recipes,
                   manager_vars, local_vars>>

\* a fetch stage that fetches every recipe of the export
PendingFetch_all(recipe_ids, fetched_recipes) == recipe_ids

\* _fetch_recipe_details: pending
PendingFetch(recipe_ids, fetched_recipes) ==
    SelectSeq(recipe_ids, LAMBDA rid : rid \notin DOMAIN fetched_recipes)

\* _fetch_recipe_details: the pending list
FetchBegin ==
    /\ pc = "fetch_begin"
    /\ LET pending == PendingFetch(export_data.all_recipes, state.fetched_recipes)
       IN /\ todo' = pending
          /\ pc' = IF pending = <<>> THEN "classify_begin" ELSE "fetch_call"
    /\ call' = NoCall
    /\ UNCHANGED <<config_vars, gateway_vars, state_file, state, managed_recipes,
                   manager_vars, inner, cur, created, new_assigned, obs>>

\* _fetch_recipe_details: one get_recipe_details call, the state saved on success
FetchCall ==
    /\ pc = "fetch_call"
    /\ LET recipe_id == Head(todo) IN
       \E out \in {"ok", "raise"} :
        /\ call' = CallRec("details", None, <<>>, <<recipe_id>>, out)
        /\ obs' = [Seen(out) EXCEPT !.attempted = @ \cup {recipe_id}]
        /\ IF out = "ok"
           THEN /\ state' = [state EXCEPT !.fetched_recipes =
                        DictSet(@, recipe_id, RecipeData(recipe_id, get_recipe_details(recipe_id)))]
                /\ state_file' = import_save_state(state')
           ELSE UNCHANGED <<state, state_file>>
    /\ pc' = "fetch_sleep"
    /\ UNCHANGED <<config_vars, gateway_vars, managed_recipes, manager_vars, local_vars>>

\* _fetch_recipe_details: await asyncio.sleep(COOKIDOO_DELAY_MS / 1000)
FetchSleep ==
    /\ pc = "fetch_sleep"
    /\ call' = CallRec("sleep", None, <<>>, <<>>, "ok")
    /\ todo' = Tail(todo)
    /\ pc' = IF Tail(todo) = <<>> THEN "classify_begin" ELSE "fetch_call"
    /\ UNCHANGED <<config_vars, gateway_vars, state_file, state, managed_recipes,
                   manager_vars, inner, cur, created, new_assigned, obs>>

\* a run() that organizes whatever the mode
AfterClassify_organize == "org_load"

\* run(): step 4, after the classify stage
AfterClassify == IF dry_run THEN "done" ELSE "org_load"

\* a classify stage that takes every fetched recipe, classified or not
PendingClassify_all(fetched_recipes, classifications) ==
    SetToList(DOMAIN fetched_recipes)

\* _classify_recipes: pending_recipes (the ids of the RecipeDetails)
PendingClassify(fetched_recipes, classifications) ==
    SelectSeq(SetToList(DOMAIN fetched_recipes),
              LAMBDA rid : rid \notin DOMAIN classifications)

\* _classify_recipes, up to the call of classify_all
ClassifyBegin ==
    /\ pc = "classify_begin"
    /\ LET pending_recipes == PendingClassify(state.fetched_recipes, state.classifications)
       IN /\ todo' = pending_recipes
          /\ pc' = IF pending_recipes = <<>> THEN AfterClassify ELSE "classify_call"
    /\ call' = NoCall
    /\ UNCHANGED <<config_vars, gateway_vars, state_file, state, managed_recipes,
                   manager_vars, inner, cur, created, new_assigned, obs>>

\* classify_all: one batch; on_batch_complete stores the results and saves
ClassifyCall ==
    /\ pc = "classify_call"
    /\ LET batch == Slice(todo, 0, BATCH_SIZE)
           recipe_map == [rid \in ListToSet(batch) |-> state.fetched_recipes[rid]]
       IN \E response \in LlmResponses(batch) :
           LET res == IF response.kind = "json" THEN "ok" ELSE response.kind IN
           /\ call' = CallRec("classify", None, <<>>, batch, res)
           /\ obs' = [Seen(res) EXCEPT
                        !.sent = @ \o batch,
                        !.answered = @ \cup {ValidItems(response.items, batch)[i].id :
                                                i \in DOMAIN ValidItems(response.items, batch)}]
           /\ IF response.kind = "raise"
              THEN UNCHANGED <<state, state_file>>
              ELSE /\ state' = [state EXCEPT !.classifications =
                            StoreResults(@, classify_batch(recipe_map, response))]
                   /\ state_file' = import_save_state(state')
    /\ todo' = Slice(todo, BATCH_SIZE, Len(todo))
    /\ pc' = IF todo' = <<>> THEN AfterClassify ELSE "classify_call"
    /\ UNCHANGED <<config_vars, gateway_vars, managed_recipes, manager_vars,
                   inner, cur, created, new_assigned>>

\* organize_recipes_into_collections: the name of the collection of a classification
GroupName(classification) ==
    get_collection_name(classification.season, classification.dish_type)

\* organize_recipes_into_collections: groups, as sorted(groups.items())
SortedGroups(classifications, assigned_recipes) ==
    LET valid == {rid \in DOMAIN classifications \ assigned_recipes :
                      /\ classifications[rid].season \in Season
                      /\ classifications[rid].dish_type \in DishType}
        names == SortedNames({GroupName(classifications[rid]) : rid \in valid})
    IN [i \in DOMAIN names |->
           [collection_name |-> names[i],
            recipe_ids |-> SetToList({rid \in valid :
                                GroupName(classifications[rid]) = names[i]})]]

\* organize_recipes_into_collections: the manager, its load, and the groups
OrgLoad ==
    /\ pc = "org_load"
    /\ \E out \in {"ok", "raise"} :
        /\ call' = CallRec("list", None, <<>>, <<>>, out)
        /\ obs' = Seen(out)
        /\ IF out = "ok"
           THEN /\ collections_cache' = load_existing_collections.cache
                /\ collection_recipes' = load_existing_collections.recipes
                /\ todo' = SortedGroups(state.classifications, state.assigned_recipes)
                /\ pc' = "org_group"
           ELSE /\ pc' = "error"
                /\ UNCHANGED <<manager_vars, todo>>
    /\ created' = EmptyDict
    /\ new_assigned' = {}
    /\ UNCHANGED <<config_vars, gateway_vars, state_file, state, managed_recipes,
                   inner, cur>>

\* the recipes the finished group marks as assigned
GroupAssigned_added_only(recipe_ids, added) ==
    IF added = Len(recipe_ids) THEN ListToSet(recipe_ids) ELSE {}

\* organize_recipes_into_collections: new_assigned.update(recipe_ids)
GroupAssigned(recipe_ids, added) == ListToSet(recipe_ids)

\* organize_recipes_into_collections: the end of a turn of the loop over the
\* groups, after add_recipes_to_collection has returned added;
\* on_collection_complete saves self.state
GroupDone(added) ==
    /\ new_assigned' = new_assigned \cup GroupAssigned(Head(todo).recipe_ids, added)
    /\ state_file' = import_save_state(state)
    /\ todo' = Tail(todo)
    /\ inner' = <<>>
    /\ pc' = "org_group"

\* organize_recipes_into_collections: ensure_collection for the next group, and
\* add_recipes_to_collection up to its first gateway call
OrgEnsure ==
    /\ pc = "org_group" /\ todo # <<>>
    /\ LET group == Head(todo) IN
       \E out \in EnsureOutcomes(group.collection_name) :
        LET r == ensure_collection(group.collection_name, out)
            new_ids == NewIds(r.recipes, r.ret, group.recipe_ids)
        IN
        /\ call' = r.call
        /\ obs' = IF r.call.op = "none" THEN obs ELSE Seen(out)
        /\ remote' = r.remote
        /\ nextId' = r.nextId
        /\ collections_cache' = r.cache
        /\ collection_recipes' = r.recipes
        /\ IF r.raised
           THEN /\ pc' = "error"
                /\ UNCHANGED <<state_file, local_vars>>
           ELSE /\ created' = DictSet(created, group.collection_name, r.ret)
                /\ cur' = [collection_id |-> r.ret, added_count |-> 0]
                /\ IF new_ids = <<>>
                   THEN GroupDone(0)
                   ELSE /\ inner' = new_ids
                        /\ pc' = "org_add"
                        /\ UNCHANGED <<state_file, todo, new_assigned>>
    /\ UNCHANGED <<config_vars, state, managed_recipes>>

\* add_recipes_to_collection: one batch; after the last one, the end of the turn
OrgAdd ==
    /\ pc = "org_add"
    /\ \E out \in MemberOutcomes(cur.collection_id) :
        LET r == AddBatch(collection_recipes, remote, cur.collection_id, inner, out) IN
        /\ call' = r.call
        /\ obs' = [Seen(out) EXCEPT !.add_failed =
                        IF out = "ok" THEN @ \ ListToSet(r.call.rids)
                        ELSE @ \cup ListToSet(r.call.rids)]
        /\ remote' = r.remote
        /\ collection_recipes' = r.recipes
        /\ cur' = [cur EXCEPT !.added_count = @ + r.added]
        /\ IF r.rest = <<>>
           THEN GroupDone(cur.added_count + r.added)
           ELSE /\ inner' = r.rest
                /\ UNCHANGED <<state_file, todo, new_assigned, pc>>
    /\ UNCHANGED <<config_vars, nextId, state, managed_recipes, collections_cache, created>>

\* _organize_recipes: after organize_recipes_into_collections has returned
OrgFinish ==
    /\ pc = "org_group" /\ todo = <<>>
    /\ state' = [state EXCEPT
            !.created_collections = [n \in DOMAIN @ \cup DOMAIN created |->
                                        IF n \in DOMAIN created THEN created[n] ELSE @[n]],
            !.assigned_recipes = @ \cup new_assigned]
    /\ state_file' = import_save_state(state')
    /\ pc' = "done"
    /\ call' = NoCall
    /\ UNCHANGED <<config_vars, gateway_vars, managed_recipes, manager_vars, local_vars, obs>>

(***************************************************************************)
(* Organize pipeline (organizer.py OrganizeState, CollectionOrganizer)     *)
(***************************************************************************)
\* OrganizeState(export_file=...)
NewOrganizeState(f) ==
    [export_file |-> f, flattened_collections |-> {}, created_collections |-> EmptyDict,
     removed_managed_recipes |-> EmptyDict, deleted_collections |-> {}]

\* OrganizeState.to_dict
OrganizeState_to_dict(s) ==
    [export_file |-> s.export_file,
     flattened_collections |-> SetToList(s.flattened_collections),
     created_collections |-> s.created_collections,
     removed_managed_recipes |->
        [k \in DOMAIN s.removed_managed_recipes |-> SetToList(s.removed_managed_recipes[k])],
     deleted_collections |-> SetToList(s.deleted_collections)]

\* OrganizeState.from_dict (removed_managed_recipes in the dict format)
OrganizeState_from_dict(data) ==
    LET removed == DictGet(data, "removed_managed_recipes", EmptyDict) IN
    [export_file |-> data.export_file,
     flattened_collections |-> ListToSet(DictGet(data, "flattened_collections", <<>>)),
     created_collections |-> DictGet(data, "created_collections", EmptyDict),
     removed_managed_recipes |-> [k \in DOMAIN removed |-> ListToSet(removed[k])],
     deleted_collections |-> ListToSet(DictGet(data, "deleted_collections", <<>>))]

\* a loader that resumes from whatever state file it finds
organize_load_state_any(file, f) ==
    IF file.kind = "json" THEN OrganizeState_from_dict(file.data) ELSE NewOrganizeState(f)

\* CollectionOrganizer._load_state
organize_load_state(file, f) ==
    IF file.kind = "json" /\ DictGet(file.data, "export_file", "") = f
    THEN OrganizeState_from_dict(file.data)
    ELSE NewOrganizeState(f)

\* CollectionOrganizer._save_state
organize_save_state(s) == [kind |-> "json", data |-> OrganizeState_to_dict(s)]

managed_key == <<"[Managed]", "Ideas", "sencillas">>

\* a loader that takes every exported recipe for managed when the export has
\* no managed entry
load_managed_recipes_default_all(data) ==
    IF data.has_managed THEN ListToSet(data.managed) ELSE ListToSet(data.all_recipes)

\* CollectionOrganizer._load_managed_recipes
load_managed_recipes(data) ==
    IF data.has_managed THEN ListToSet(data.managed) ELSE {}

\* list(manager._collections_cache.items()), as records
CacheItems ==
    LET ids == SetToList({collections_cache[n] : n \in DOMAIN collections_cache}) IN
    [i \in DOMAIN ids |->
        [name |-> CHOOSE n \in DOMAIN collections_cache : collections_cache[n] = ids[i],
         col_id |-> ids[i]]]

\* CollectionOrganizer(...) and run() up to the login
OrganizeStart ==
    /\ tool = "organize" /\ pc \in Terminal /\ run < MaxRuns
    /\ run' = run + 1
    /\ \E d \in BOOLEAN, f \in ExportFiles :
        /\ dry_run' = d
        /\ export_file' = f
        /\ state' = organize_load_state(state_file, f)
    /\ managed_recipes' = load_managed_recipes(export_data)
    /\ pc' = "login"
    /\ collections_cache' = EmptyDict
    /\ collection_recipes' = EmptyDict
    /\ todo' = <<>> /\ inner' = <<>> /\ cur' = EmptyDict
    /\ created' = EmptyDict /\ new_assigned' = {}
    /\ call' = NoCall
    /\ obs' = [StartObs EXCEPT !.loaded = state']
    /\ UNCHANGED <<tool, export_data, gateway_vars, state_file>>

\* manager = CollectionManager(cookidoo); await manager.load_existing_collections()
OrganizeLoad ==
    /\ pc = "load"
    /\ \E out \in {"ok", "raise"} :
        /\ call' = CallRec("list", None, <<>>, <<>>, out)
        /\ obs' = Seen(out)
        /\ IF out = "ok"
           THEN /\ collections_cache' = load_existing_collections.cache
                /\ collection_recipes' = load_existing_collections.recipes
                /\ pc' = "flatten_begin"
           ELSE /\ pc' = "error"
                /\ UNCHANGED manager_vars
    /\ UNCHANGED <<config_vars, gateway_vars, state_file, state, managed_recipes, local_vars>>

\* a flatten stage that takes every two-level collection, flattened before or not
ToFlatten_all(items, flattened) ==
    SelectSeq(items, LAMBDA it : parse_two_level_name(it.name) # NoMatch)

\* _flatten_collections: collections_to_flatten
ToFlatten(items, flattened) ==
    SelectSeq(items, LAMBDA it : /\ it.col_id \notin flattened
                                 /\ parse_two_level_name(it.name) # NoMatch)

FlattenBegin ==
    /\ pc = "flatten_begin"
    /\ LET found == ToFlatten(CacheItems, state.flattened_collections)
           collections_to_flatten ==
               [i \in DOMAIN found |->
                   [name |-> found[i].name, col_id |-> found[i].col_id,
                    dish_type |-> parse_two_level_name(found[i].name)[2]]]
       IN /\ todo' = collections_to_flatten
          /\ pc' = IF collections_to_flatten = <<>> THEN "remove_begin" ELSE "flatten_item"
    /\ call' = NoCall
    /\ UNCHANGED <<config_vars, gateway_vars, state_file, state, managed_recipes,
                   manager_vars, inner, cur, created, new_assigned, obs>>

\* a flatten stage that stops after its first collection
AfterFlattenItem_first_only == "remove_begin"

\* the position after the current collection of the flatten loop
AfterFlattenItem == IF Tail(todo) = <<>> THEN "remove_begin" ELSE "flatten_item"

\* a flatten stage that marks a collection without recipes and does not save
FlattenSkip_unsaved ==
    /\ pc = "flatten_item"
    /\ LET col_id == Head(todo).col_id
           recipes == DictGet(collection_recipes, col_id, {})
       IN /\ dry_run \/ recipes = {}
          /\ IF dry_run
             THEN UNCHANGED state
             ELSE state' = [state EXCEPT !.flattened_collections = @ \cup {col_id}]
    /\ todo' = Tail(todo)
    /\ pc' = AfterFlattenItem
    /\ call' = NoCall
    /\ UNCHANGED <<config_vars, gateway_vars, state_file, managed_recipes, manager_vars,
                   inner, cur, created, new_assigned, obs>>

\* _flatten_collections: a collection that is only printed (dry run) or that
\* has no recipes to move
FlattenSkip ==
    /\ pc = "flatten_item"
    /\ LET col_id == Head(todo).col_id
           recipes == DictGet(collection_recipes, col_id, {})
       IN /\ dry_run \/ recipes = {}
          /\ IF dry_run
             THEN UNCHANGED <<state, state_file>>
             ELSE /\ state' = [state EXCEPT !.flattened_collections = @ \cup {col_id}]
                  /\ state_file' = organize_save_state(state')
    /\ todo' = Tail(todo)
    /\ pc' = AfterFlattenItem
    /\ call' = NoCall
    /\ UNCHANGED <<config_vars, gateway_vars, managed_recipes, manager_vars,
                   inner, cur, created, new_assigned, obs>>

\* _flatten_collections: the collection is marked flattened and the state saved
\* (created_collections: the state with the target recorded)
FlattenDone(s) ==
    /\ state' = [s EXCEPT !.flattened_collections = @ \cup {Head(todo).col_id}]
    /\ state_file' = organize_save_state(state')
    /\ inner' = <<>>
    /\ pc' = "flatten_sleep"

\* _flatten_collections: ensure_collection for the target, and
\* add_recipes_to_collection up to its first gateway call
FlattenEnsure ==
    /\ pc = "flatten_item" /\ ~dry_run
    /\ LET col_id == Head(todo).col_id
           recipes == DictGet(collection_recipes, col_id, {})
           english_name == translate_dish_type(Head(todo).dish_type)
       IN /\ recipes # {}
          /\ \E out \in EnsureOutcomes(english_name) :
              LET r == ensure_collection(english_name, out)
                  target_id == r.ret
                  new_ids == NewIds(r.recipes, target_id, SetToList(recipes))
                  s == [state EXCEPT !.created_collections =
                                        DictSet(@, english_name, target_id)]
              IN
              /\ call' = r.call
              /\ obs' = IF r.call.op = "none" THEN obs ELSE Seen(out)
              /\ remote' = r.remote
              /\ nextId' = r.nextId
              /\ collections_cache' = r.cache
              /\ collection_recipes' = r.recipes
              /\ IF r.raised
                 THEN /\ pc' = "error"
                      /\ UNCHANGED <<state, state_file, inner, cur>>
                 ELSE /\ cur' = [collection_id |-> target_id, added_count |-> 0]
                      /\ IF new_ids = <<>>
                         THEN FlattenDone(s)
                         ELSE /\ state' = s
                              /\ inner' = new_ids
                              /\ pc' = "flatten_add"
                              /\ UNCHANGED state_file
    /\ UNCHANGED <<config_vars, managed_recipes, todo, created, new_assigned>>

\* add_recipes_to_collection: one batch; after the last one, the end of the turn
FlattenAdd ==
    /\ pc = "flatten_add"
    /\ \E out \in MemberOutcomes(cur.collection_id) :
        LET r == AddBatch(collection_recipes, remote, cur.collection_id, inner, out) IN
        /\ call' = r.call
        /\ obs' = [Seen(out) EXCEPT !.add_failed =
                        IF out = "ok" THEN @ \ ListToSet(r.call.rids)
                        ELSE @ \cup ListToSet(r.call.rids)]
        /\ remote' = r.remote
        /\ collection_recipes' = r.recipes
        /\ cur' = [cur EXCEPT !.added_count = @ + r.added]
        /\ IF r.rest = <<>>
           THEN FlattenDone(state)
           ELSE /\ inner' = r.rest
                /\ UNCHANGED <<state, state_file, pc>>
    /\ UNCHANGED <<config_vars, nextId, managed_recipes, collections_cache,
                   todo, created, new_assigned>>

\* _flatten_collections: await asyncio.sleep(COOKIDOO_DELAY_MS / 1000)
FlattenSleep ==
    /\ pc = "flatten_sleep"
    /\ call' = CallRec("sleep", None, <<>>, <<>>, "ok")
    /\ todo' = Tail(todo)
    /\ pc' = AfterFlattenItem
    /\ UNCHANGED <<config_vars, gateway_vars, state_file, state, managed_recipes,
                   manager_vars, inner, cur, created, new_assigned, obs>>

\* _remove_managed_recipes: the collections to look at
RemoveBegin ==
    /\ pc = "remove_begin"
    /\ IF managed_recipes = {}
       THEN /\ pc' = "delete_begin"
            /\ todo' = <<>>
       ELSE /\ todo' = CacheItems
            /\ pc' = IF CacheItems = <<>> THEN "delete_begin" ELSE "remove_item"
    /\ call' = NoCall
    /\ UNCHANGED <<config_vars, gateway_vars, state_file, state, managed_recipes,
                   manager_vars, inner, cur, created, new_assigned, obs>>

\* a remove stage that also looks at the managed source collection
ToRemove_any_flat(name, col_id) ==
    IF parse_two_level_name(name) # NoMatch THEN {}
    ELSE (DictGet(collection_recipes, col_id, {}) \cap managed_recipes)
            \ DictGet(state.removed_managed_recipes, col_id, {})

\* _remove_managed_recipes: to_remove of a collection
ToRemove(name, col_id) ==
    IF name = managed_key \/ parse_two_level_name(name) # NoMatch THEN {}
    ELSE (DictGet(collection_recipes, col_id, {}) \cap managed_recipes)
            \ DictGet(state.removed_managed_recipes, col_id, {})

AfterRemoveItem == IF Tail(todo) = <<>> THEN "delete_begin" ELSE "remove_item"

\* a remove stage that only looks at what there is to remove
RemoveSkipped_nothing_to_remove(to_remove, dry) == to_remove = {}

\* _remove_managed_recipes: "if not to_remove: continue", "if self.dry_run: continue"
RemoveSkipped(to_remove, dry) == to_remove = {} \/ dry

\* _remove_managed_recipes: one collection, up to its first remove call
RemoveItem ==
    /\ pc = "remove_item"
    /\ LET to_remove == ToRemove(Head(todo).name, Head(todo).col_id) IN
       IF RemoveSkipped(to_remove, dry_run)
       THEN /\ todo' = Tail(todo)
            /\ pc' = AfterRemoveItem
            /\ UNCHANGED inner
       ELSE /\ inner' = SetToList(to_remove)
            /\ pc' = "remove_call"
            /\ UNCHANGED todo
    /\ call' = NoCall
    /\ UNCHANGED <<config_vars, gateway_vars, state_file, state, managed_recipes,
                   manager_vars, cur, created, new_assigned, obs>>

\* _remove_managed_recipes: one remove call, recorded and saved on success
RemoveCall ==
    /\ pc = "remove_call"
    /\ LET col_id == Head(todo).col_id
           recipe_id == Head(inner)
       IN \E out \in MemberOutcomes(col_id) :
           LET r == remove_recipe_from_collection(col_id, recipe_id, out) IN
           /\ call' = r.call
           /\ obs' = Seen(out)
           /\ remote' = r.remote
           /\ collection_recipes' = r.recipes
           /\ IF r.ret
              THEN /\ state' = [state EXCEPT !.removed_managed_recipes =
                            DictSet(@, col_id, DictGet(@, col_id, {}) \cup {recipe_id})]
                   /\ state_file' = organize_save_state(state')
              ELSE UNCHANGED <<state, state_file>>
    /\ pc' = "remove_sleep"
    /\ UNCHANGED <<config_vars, nextId, managed_recipes, collections_cache, local_vars>>

\* _remove_managed_recipes: await asyncio.sleep(COOKIDOO_DELAY_MS / 1000)
RemoveSleep ==
    /\ pc = "remove_sleep"
    /\ call' = CallRec("sleep", None, <<>>, <<>>, "ok")
    /\ inner' = Tail(inner)
    /\ IF Tail(inner) = <<>>
       THEN /\ todo' = Tail(todo)
            /\ pc' = AfterRemoveItem
       ELSE /\ pc' = "remove_call"
            /\ UNCHANGED todo
    /\ UNCHANGED <<config_vars, gateway_vars, state_file, state, managed_recipes,
                   manager_vars, cur, created, new_assigned, obs>>

\* a delete stage that takes every cached collection not yet deleted
ToDelete_any_name(items, deleted) ==
    SelectSeq(items, LAMBDA it : it.col_id \notin deleted)

\* _delete_old_collections: to_delete
ToDelete(items, deleted) ==
    SelectSeq(items, LAMBDA it : /\ it.col_id \notin deleted
                                 /\ parse_two_level_name(it.name) # NoMatch)

DeleteBegin ==
    /\ pc = "delete_begin"
    /\ LET to_delete == ToDelete(CacheItems, state.deleted_collections) IN
        /\ todo' = to_delete
        /\ pc' = IF to_delete = <<>> THEN "done" ELSE "delete_item"
    /\ call' = NoCall
    /\ UNCHANGED <<config_vars, gateway_vars, state_file, state, managed_recipes,
                   manager_vars, inner, cur, created, new_assigned, obs>>

\* a run() that removes the managed recipes after the deletions
AfterDeleteItem_then_remove == IF Tail(todo) = <<>> THEN "remove_begin" ELSE "delete_item"

\* the position after the current collection of the delete loop
AfterDeleteItem == IF Tail(todo) = <<>> THEN "done" ELSE "delete_item"

\* _delete_old_collections: a collection that is only printed (dry run)
DeleteSkip ==
    /\ pc = "delete_item" /\ dry_run
    /\ todo' = Tail(todo)
    /\ pc' = AfterDeleteItem
    /\ call' = NoCall
    /\ UNCHANGED <<config_vars, gateway_vars, state_file, state, managed_recipes,
                   manager_vars, inner, cur, created, new_assigned, obs>>

\* _delete_old_collections: one delete call, recorded and saved on success
DeleteCall ==
    /\ pc = "delete_item" /\ ~dry_run
    /\ LET col_id == Head(todo).col_id IN
       \E out \in MemberOutcomes(col_id) :
           LET r == delete_collection(col_id, out) IN
           /\ call' = r.call
           /\ obs' = Seen(out)
           /\ remote' = r.remote
           /\ collections_cache' = r.cache
           /\ collection_recipes' = r.recipes
           /\ IF r.ret
              THEN /\ state' = [state EXCEPT !.deleted_collections = @ \cup {col_id}]
                   /\ state_file' = organize_save_state(state')
              ELSE UNCHANGED <<state, state_file>>
    /\ pc' = "delete_sleep"
    /\ UNCHANGED <<config_vars, nextId, managed_recipes, local_vars>>

\* _delete_old_collections: await asyncio.sleep(COOKIDOO_DELAY_MS / 1000)
DeleteSleep ==
    /\ pc = "delete_sleep"
    /\ call' = CallRec("sleep", None, <<>>, <<>>, "ok")
    /\ todo' = Tail(todo)
    /\ pc' = AfterDeleteItem
    /\ UNCHANGED <<config_vars, gateway_vars, state_file, state, managed_recipes,
                   manager_vars, inner, cur, created, new_assigned, obs>>

(***************************************************************************)
(* Interruption (KeyboardInterrupt at an await point) and the programs     *)
(***************************************************************************)
\* the name ensure_collection is about to be called with
EnsureTarget ==
    IF pc = "org_group" THEN Head(todo).collection_name
    ELSE translate_dish_type(Head(todo).dish_type)

\* the gateway mutation the process is awaiting, if any
PendingCall ==
    IF /\ \/ pc = "org_group" /\ todo # <<>>
          \/ /\ pc = "flatten_item" /\ ~dry_run
             /\ DictGet(collection_recipes, Head(todo).col_id, {}) # {}
       /\ EnsureTarget \notin DOMAIN collections_cache
    THEN "create"
    ELSE IF pc \in {"org_add", "flatten_add"} THEN "add"
    ELSE IF pc = "remove_call" THEN "remove"
    ELSE IF pc = "delete_item" /\ ~dry_run THEN "delete"
    ELSE "none"

AwaitPcs == {"login", "fetch_call", "fetch_sleep", "classify_call", "org_load",
             "load", "flatten_sleep", "remove_sleep", "delete_sleep"}

\* the account after the interruption: the awaited mutation has taken place or not
InterruptedAccounts ==
    {[remote |-> remote, nextId |-> nextId]}
    \cup (IF PendingCall = "create" /\ nextId <= MaxId
          THEN {[remote |-> add_custom_collection(EnsureTarget, "ok").remote,
                 nextId |-> nextId + 1]}
          ELSE {})
    \cup (IF PendingCall = "add" /\ cur.collection_id \in DOMAIN remote
          THEN {[remote |-> add_recipes_to_custom_collection(
                                remote, cur.collection_id, Slice(inner, 0, batch_size), "ok").remote,
                 nextId |-> nextId]}
          ELSE {})
    \cup (IF PendingCall = "remove" /\ Head(todo).col_id \in DOMAIN remote
          THEN {[remote |-> remove_recipe_from_custom_collection(
                                Head(todo).col_id, Head(inner), "ok").remote,
                 nextId |-> nextId]}
          ELSE {})
    \cup (IF PendingCall = "delete" /\ Head(todo).col_id \in DOMAIN remote
          THEN {[remote |-> remove_custom_collection(Head(todo).col_id, "ok").remote,
                 nextId |-> nextId]}
          ELSE {})

\* the process is interrupted while it awaits: exit status 130
Interrupt ==
    /\ pc \in AwaitPcs \/ PendingCall # "none"
    /\ \E a \in InterruptedAccounts :
        /\ remote' = a.remote
        /\ nextId' = a.nextId
        /\ call' = IF a.remote = remote THEN NoCall
                   ELSE CallRec(PendingCall, None, <<>>, <<>>, "cut")
    /\ pc' = "interrupted"
    /\ obs' = [obs EXCEPT !.run_ok = FALSE]
    /\ UNCHANGED <<config_vars, state_file, state, managed_recipes, manager_vars, local_vars>>

ImportRecipeLists == {<<>>, SetToList(Recipes)}

\* the state file a run on an export without recipes may find: absent, or the
\* progress an earlier import left (a recipe fetched and classified)
LeftStateFiles ==
    {NoFile,
     import_save_state([NewImportState("A") EXCEPT
        !.fetched_recipes = DictSet(@, 1, RecipeData(1, get_recipe_details(1))),
        !.classifications = StoreResults(@, <<[recipe_id |-> 1,
                                               recipe_name |-> get_recipe_details(1).name,
                                               season |-> "Verano", dish_type |-> "Pescados",
                                               confidence |-> 9]>>)])}

InitImport ==
    /\ tool = "import"
    /\ export_data \in {[all_recipes |-> l, has_managed |-> FALSE, managed |-> <<>>] :
                            l \in ImportRecipeLists}
    /\ remote \in Accounts({1})
    /\ InitRun
    /\ state_file \in IF export_data.all_recipes = <<>> THEN LeftStateFiles ELSE {NoFile}

NextImport ==
    \/ ImportStart \/ Login \/ FetchBegin \/ FetchCall \/ FetchSleep
    \/ ClassifyBegin \/ ClassifyCall \/ OrgLoad \/ OrgEnsure \/ OrgAdd \/ OrgFinish
    \/ Interrupt

SpecImport == InitImport /\ [][NextImport]_vars

\* the "[Managed] Ideas sencillas" entry of the export: absent, empty, or a
\* list of recipes
ManagedEntries == {[has_managed |-> FALSE, managed |-> <<>>],
                   [has_managed |-> TRUE, managed |-> <<>>],
                   [has_managed |-> TRUE, managed |-> <<1>>]}

InitOrganize ==
    /\ tool = "organize"
    /\ export_data \in {[all_recipes |-> SetToList(Recipes), has_managed |-> m.has_managed,
                          managed |-> m.managed] : m \in ManagedEntries}
    /\ remote \in Accounts({1, 2, 3, 4, 5})
    /\ InitCommon

NextOrganize ==
    \/ OrganizeStart \/ Login \/ OrganizeLoad
    \/ FlattenBegin \/ FlattenSkip \/ FlattenEnsure \/ FlattenAdd \/ FlattenSleep
    \/ RemoveBegin \/ RemoveItem \/ RemoveCall \/ RemoveSleep
    \/ DeleteBegin \/ DeleteSkip \/ DeleteCall \/ DeleteSleep
    \/ Interrupt

SpecOrganize == InitOrganize /\ [][NextOrganize]_vars

Init == InitImport \/ InitOrganize

Next == NextImport \/ NextOrganize

Spec == Init /\ [][Next]_vars

(***************************************************************************)
(* The organize pipeline on an account its user keeps using between runs   *)
(***************************************************************************)
\* between two runs the user of the account adds a recipe to a collection
RemoteChange ==
    /\ tool = "organize" /\ pc \in Terminal /\ 0 < run /\ run < MaxRuns
    /\ \E cid \in DOMAIN remote, rid \in Recipes :
        /\ rid \notin remote[cid].recipes
        /\ remote' = add_recipes_to_custom_collection(remote, cid, <<rid>>, "ok").remote
    /\ call' = NoCall
    /\ UNCHANGED <<config_vars, pc, nextId, state_file, state, managed_recipes,
                   manager_vars, local_vars, obs>>

InitShared == InitOrganize /\ export_data.managed # <<>>

NextShared == NextOrganize \/ RemoteChange

SpecShared == InitShared /\ [][NextShared]_vars

(***************************************************************************)
(* The state file as a run may find it (importer.py and organizer.py       *)
(* _load_state, models.py ImportState, organizer.py OrganizeState)         *)
(***************************************************************************)
\* bound of the collection ids in the sampled OrganizeStates
MaxStateId == 2

\* a text that json.load rejects (JSONDecodeError)
NotJson == [kind |-> "text"]

\* valid JSON that is not an object (a list): json.load returns a list
JsonList == [kind |-> "value"]

\* a JSON object like data, with one field of another JSON shape
Misshapen(data, field, shape) ==
    [kind |-> "misshapen", data |-> data, field |-> field, shape |-> shape]

\* a JSON object without the key
WithoutKey(data, key) == [k \in DOMAIN data \ {key} |-> data[k]]

\* the classification dict stored for a recipe (RecipeClassification.to_dict)
ClassificationOf(rid) ==
    classify_batch([r \in {rid} |-> RecipeData(rid, get_recipe_details(rid))],
                   [kind |-> "json", items |-> <<LlmItem(rid)>>])[1]

\* the ImportStates over the recipes of the model
ImportStates ==
    {[export_file |-> f,
      fetched_recipes |-> [r \in fs |-> RecipeData(r, get_recipe_details(r))],
      classifications |-> [r \in cs |-> ClassificationOf(r)],
      created_collections |-> cr,
      assigned_recipes |-> as] :
        f \in ExportFiles, fs \in SUBSET Recipes, cs \in SUBSET Recipes,
        cr \in {EmptyDict, [n \in {InitNames[1]} |-> 1]}, as \in SUBSET Recipes}

\* the OrganizeStates over the first collection ids
OrganizeStates ==
    {[export_file |-> f, flattened_collections |-> fl,
      created_collections |-> cr,
      removed_managed_recipes |-> rm,
      deleted_collections |-> de] :
        f \in ExportFiles, fl \in SUBSET (1..MaxStateId),
        cr \in {EmptyDict, [n \in {InitNames[3]} |-> 1]},
        rm \in {EmptyDict, [c \in {1} |-> {1}]}, de \in SUBSET (1..MaxStateId)}

\* the fields of a persisted state and the JSON shape from_dict expects of each
FieldShapes(t) ==
    IF t = "import"
    THEN [fetched_recipes |-> "object", classifications |-> "object",
          created_collections |-> "object", assigned_recipes |-> "list"]
    ELSE [flattened_collections |-> "list", created_collections |-> "object",
          removed_managed_recipes |-> "object", deleted_collections |-> "list"]

JsonShapes == {"number", "list", "object"}

\* the objects _save_state writes
SavedFiles(t) ==
    IF t = "import" THEN {import_save_state(s) : s \in ImportStates}
    ELSE {organize_save_state(s) : s \in OrganizeStates}

\* the contents of STATE_FILE a run may find
StateFiles(t) ==
    {NoFile, NotJson, JsonList}
    \cup SavedFiles(t)
    \cup {[kind |-> "json", data |-> WithoutKey(file.data, "export_file")] :
              file \in SavedFiles(t)}
    \cup UNION {{Misshapen(file.data, field, shape) :
                     file \in SavedFiles(t),
                     shape \in JsonShapes \ {FieldShapes(t)[field]}} :
                 field \in DOMAIN FieldShapes(t)}

\* ImportState.from_dict on a field of the given JSON shape: data.get(...) keeps
\* any value as it is; set(5) raises TypeError; set({...}) is the set of the keys
ImportFieldOutcome(field, shape) ==
    IF field = "assigned_recipes" /\ shape = "number" THEN "TypeError" ELSE "kept"

\* OrganizeState.from_dict on a field of the given JSON shape: a list of
\* removed_managed_recipes is the old format and read as {}; (5).items() raises
\* AttributeError; set(5) raises TypeError
OrganizeFieldOutcome(field, shape) ==
    CASE field \in {"flattened_collections", "deleted_collections"} /\ shape = "number"
            -> "TypeError"
      [] field = "removed_managed_recipes" /\ shape = "number" -> "AttributeError"
      [] field = "removed_managed_recipes" /\ shape = "list" -> "old_format"
      [] OTHER -> "kept"

\* _load_state on any content of the state file.  result: "fresh" (a new
\* state), "resumed" (the persisted state), "old_format", "kept" (a state
\* holding the misshapen value; state shows the other fields), or the
\* exception that leaves _load_state: the except clause names JSONDecodeError
\* and KeyError only
load_state(t, file, f) ==
    LET fresh == IF t = "import" THEN NewImportState(f) ELSE NewOrganizeState(f)
        resumed == IF t = "import" THEN import_load_state(file, f)
                   ELSE organize_load_state(file, f)
    IN CASE file.kind = "text" -> [result |-> "fresh", state |-> fresh]
         [] file.kind = "value" -> [result |-> "AttributeError", state |-> fresh]
         [] file.kind = "misshapen" ->
                IF DictGet(file.data, "export_file", "") # f
                THEN [result |-> "fresh", state |-> fresh]
                ELSE LET o == IF t = "import"
                              THEN ImportFieldOutcome(file.field, file.shape)
                              ELSE OrganizeFieldOutcome(file.field, file.shape)
                         data == [kind |-> "json", data |-> file.data]
                     IN CASE o = "kept" ->
                                [result |-> "kept",
                                 state |-> IF t = "import" THEN import_load_state(data, f)
                                           ELSE organize_load_state(data, f)]
                          [] o = "old_format" ->
                                [result |-> "old_format",
                                 state |-> [organize_load_state(data, f) EXCEPT
                                                !.removed_managed_recipes = EmptyDict]]
                          [] OTHER -> [result |-> o, state |-> fresh]
         [] OTHER ->
                [result |-> IF file.kind = "json"
                               /\ DictGet(file.data, "export_file", "") = f
                            THEN "resumed" ELSE "fresh",
                 state |-> resumed]

LoadErrors == {"AttributeError", "TypeError"}

\* the rest of the state before a program starts
InitRest ==
    /\ run = 0
    /\ pc = "idle"
    /\ dry_run = FALSE
    /\ export_data = [all_recipes |-> <<>>, has_managed |-> FALSE, managed |-> <<>>]
    /\ remote = EmptyDict
    /\ nextId = 1
    /\ managed_recipes = {}
    /\ collections_cache = EmptyDict
    /\ collection_recipes = EmptyDict
    /\ todo = <<>>
    /\ inner = <<>>
    /\ cur = EmptyDict
    /\ created = EmptyDict
    /\ new_assigned = {}
    /\ call = NoCall
    /\ obs = InitObs

\* a program is about to be constructed, whatever the state file holds
InitLoad ==
    /\ tool \in {"import", "organize"}
    /\ export_file \in ExportFiles
    /\ state_file \in StateFiles(tool)
    /\ state = [export_file |-> export_file]
    /\ InitRest

\* RecipeImporter(...) / CollectionOrganizer(...): self.state = self._load_state()
Construct ==
    /\ tool \in {"import", "organize"} /\ pc = "idle"
    /\ LET r == load_state(tool, state_file, export_file) IN
        /\ call' = CallRec("load_state", None, <<>>, <<>>, r.result)
        /\ IF r.result \in LoadErrors
           THEN /\ pc' = "error"
                /\ UNCHANGED state
           ELSE /\ pc' = "constructed"
                /\ state' = r.state
    /\ UNCHANGED <<config_vars, gateway_vars, state_file, managed_recipes,
                   manager_vars, local_vars, obs>>

\* an ImportState is at hand
InitModels ==
    /\ tool = "models"
    /\ export_file = "A"
    /\ state_file = NoFile
    /\ state \in ImportStates
    /\ InitRest

\* ImportState.from_dict(state.to_dict())
RoundTrip ==
    /\ tool = "models" /\ pc = "idle"
    /\ cur' = [s |-> state, data |-> ImportState_to_dict(state)]
    /\ state' = ImportState_from_dict(ImportState_to_dict(state))
    /\ pc' = "round_trip"
    /\ call' = NoCall
    /\ UNCHANGED <<config_vars, gateway_vars, state_file, managed_recipes,
                   manager_vars, todo, inner, created, new_assigned, obs>>

InitState == InitLoad \/ InitModels

NextState == Construct \/ RoundTrip

SpecState == InitState /\ [][NextState]_vars

(***************************************************************************)
(* A caller of the classifier (classifier.py classify_all, classify_batch) *)
(***************************************************************************)
\* bound of the number of recipes the caller passes
MaxClassify == 41

\* the recipe lists the caller passes (by recipe id): 1..n, ascending and
\* descending
ClassifyLists ==
    {[i \in 1..n |-> i] : n \in 0..MaxClassify}
    \cup {[i \in 1..n |-> n + 1 - i] : n \in 0..MaxClassify}

\* the responses of the LLM service to a batch: as LlmResponses, the valid
\* items being those of all the recipes, of none, of all but the first, or of
\* the first only
BatchResponses(batch) ==
    {[kind |-> "raise", items |-> <<>>], [kind |-> "malformed", items |-> <<>>]}
    \cup {[kind |-> "json", items |-> LlmItems(batch, good)] :
              good \in {ListToSet(batch), {}, ListToSet(Tail(batch)), {Head(batch)}}}

\* the recipes of a batch as classify_batch maps them: recipe_map
RecipeMap(batch) ==
    [rid \in ListToSet(batch) |-> RecipeData(rid, get_recipe_details(rid))]

\* a loop that ends at the first batch whose classification raises
ClassifyTurn_until_error(rest, all_results, on_batch_complete, response) ==
    LET batch == Slice(rest, 0, BATCH_SIZE)
        raised == response.kind = "raise"
        results == IF raised THEN <<>> ELSE classify_batch(RecipeMap(batch), response)
    IN [all_results |-> all_results \o results,
        events |-> <<[ev |-> "classify", batch |-> batch, response |-> response,
                      results |-> results]>>
                   \o (IF ~raised /\ on_batch_complete
                       THEN <<[ev |-> "callback", results |-> results]>> ELSE <<>>),
        rest |-> IF raised THEN <<>> ELSE Slice(rest, BATCH_SIZE, Len(rest))]

\* a loop that invokes the callback after every batch, also one that raised
ClassifyTurn_always_callback(rest, all_results, on_batch_complete, response) ==
    LET batch == Slice(rest, 0, BATCH_SIZE)
        raised == response.kind = "raise"
        results == IF raised THEN <<>> ELSE classify_batch(RecipeMap(batch), response)
    IN [all_results |-> all_results \o results,
        events |-> <<[ev |-> "classify", batch |-> batch, response |-> response,
                      results |-> results]>>
                   \o (IF on_batch_complete
                       THEN <<[ev |-> "callback", results |-> results]>> ELSE <<>>),
        rest |-> Slice(rest, BATCH_SIZE, Len(rest))]

\* classify_all: one turn of the loop over the batches (rest: recipes[i:]), the
\* service answering with response: the results so far, what happened in the
\* turn (the classify_batch call with what it returned, then the callback if
\* it was invoked), and the recipes left
ClassifyTurn(rest, all_results, on_batch_complete, response) ==
    LET batch == Slice(rest, 0, BATCH_SIZE)
        raised == response.kind = "raise"
        results == IF raised THEN <<>> ELSE classify_batch(RecipeMap(batch), response)
    IN [all_results |-> all_results \o results,
        events |-> <<[ev |-> "classify", batch |-> batch, response |-> response,
                      results |-> results]>>
                   \o (IF ~raised /\ on_batch_complete
                       THEN <<[ev |-> "callback", results |-> results]>> ELSE <<>>),
        rest |-> Slice(rest, BATCH_SIZE, Len(rest))]

InitClassify ==
    /\ tool = "classifier"
    /\ export_file = "A"
    /\ state_file = NoFile
    /\ state = [export_file |-> "A"]
    /\ InitRest

\* classifier.classify_all(recipes, on_batch_complete), up to the first batch
\* (on_batch_complete: whether the caller supplies the callback)
ClassifyAllBegin ==
    /\ tool = "classifier" /\ pc = "idle"
    /\ \E recipes \in ClassifyLists, on_batch_complete \in BOOLEAN :
        /\ cur' = [recipes |-> recipes, on_batch_complete |-> on_batch_complete,
                   events |-> <<>>]
        /\ todo' = recipes
        /\ pc' = IF recipes = <<>> THEN "classified" ELSE "classify_batch"
    /\ inner' = <<>>
    /\ call' = NoCall
    /\ UNCHANGED <<config_vars, gateway_vars, state_file, state, managed_recipes,
                   manager_vars, created, new_assigned, obs>>

\* classify_all: one batch, and the return after the last one (inner: all_results)
ClassifyAllBatch ==
    /\ tool = "classifier" /\ pc = "classify_batch"
    /\ \E response \in BatchResponses(Slice(todo, 0, BATCH_SIZE)) :
        LET t == ClassifyTurn(todo, inner, cur.on_batch_complete, response) IN
        /\ inner' = t.all_results
        /\ cur' = [cur EXCEPT !.events = @ \o t.events]
        /\ todo' = t.rest
        /\ call' = CallRec("classify", None, <<>>, Slice(todo, 0, BATCH_SIZE),
                           IF response.kind = "json" THEN "ok" ELSE response.kind)
        /\ pc' = IF t.rest = <<>> THEN "classified" ELSE "classify_batch"
    /\ UNCHANGED <<config_vars, gateway_vars, state_file, state, managed_recipes,
                   manager_vars, created, new_assigned, obs>>

NextClassify == ClassifyAllBegin \/ ClassifyAllBatch

SpecClassify == InitClassify /\ [][NextClassify]_vars

(***************************************************************************)
(* The taxonomy functions on their own (models.py translate_dish_type and  *)
(* get_collection_name, organizer.py _parse_two_level_name)                *)
(***************************************************************************)
\* bound of the length (in tokens) of the collection names that are parsed
MaxNameLen == 4

\* the tokens of the names that are parsed: an emoji, a season, the season in
\* lower case, the separator, a dish type, the dish type in lower case, a
\* target-taxonomy name, another word
NameTokens == {"U2600", "Verano", "verano", ">", "Carnes", "carnes", "Meats", "Mis"}

\* the collection names that are parsed: every legacy name, and every
\* sequence of the tokens up to the bound
ParsedNames ==
    {get_collection_name(season, dish_type) : season \in Season, dish_type \in DishType}
    \cup UNION {[1..n -> NameTokens] : n \in 1..MaxNameLen}

InitTaxonomy ==
    /\ tool = "taxonomy"
    /\ export_file = "A"
    /\ state_file = NoFile
    /\ state = [export_file |-> "A"]
    /\ InitRest

\* translate_dish_type(spanish)
Translate ==
    /\ tool = "taxonomy"
    /\ \E spanish \in DishType :
        cur' = [spanish |-> spanish, english |-> translate_dish_type(spanish)]
    /\ pc' = "translated"
    /\ UNCHANGED <<config_vars, gateway_vars, state_file, state, managed_recipes,
                   manager_vars, todo, inner, created, new_assigned, call, obs>>

\* self._parse_two_level_name(name), of one name between two translations
ParseName ==
    /\ tool = "taxonomy"
    /\ pc # "parsed"
    /\ \E name \in ParsedNames :
        cur' = [name |-> name, parsed |-> parse_two_level_name(name)]
    /\ pc' = "parsed"
    /\ UNCHANGED <<config_vars, gateway_vars, state_file, state, managed_recipes,
                   manager_vars, todo, inner, created, new_assigned, call, obs>>

NextTaxonomy == Translate \/ ParseName

SpecTaxonomy == InitTaxonomy /\ [][NextTaxonomy]_vars

(***************************************************************************)
(* Claims                                                                  *)
(***************************************************************************)
\* C1 (as stated): of two ensure_collection calls for one name that return,
\* with no delete of the collection in between, at most one issues a create
\* call and both return the same id; a name recorded by
\* load_existing_collections causes no create call.
C1_EnsureAtMostOneCreate ==
    (obs.last.op = "ensure" /\ obs.last.ok) =>
        /\ obs.last.prior # <<>> =>
            /\ obs.last.ret = obs.last.prior[1]
            /\ ~(obs.last.prior[2] /\ call.op = "create")
        /\ obs.last.name \in obs.known => call.op = "none"

\* C2 (as stated): every id add_recipes_to_collection submits is not a cached
\* member of the collection, and the second of two identical calls in a row
\* submits nothing and returns 0.
C2_SecondAddSubmitsNothing ==
    /\ call.op = "add" => ListToSet(call.rids) \cap obs.last.existing = {}
    /\ (pc = "mgr" /\ obs.last.op = "add" /\ obs.last.prior # <<>>) =>
            obs.last.submitted = <<>> /\ obs.last.ret = 0

\* C2 (amended): every id add_recipes_to_collection submits is not a cached
\* member of the collection, and the second of two identical calls in a row
\* submits nothing and returns 0 when every gateway call of the first succeeded.
C2_SecondAddAfterSuccess ==
    /\ call.op = "add" => ListToSet(call.rids) \cap obs.last.existing = {}
    /\ (pc = "mgr" /\ obs.last.op = "add" /\ obs.last.prior # <<>>
            /\ obs.last.prior[1]) =>
            obs.last.submitted = <<>> /\ obs.last.ret = 0

\* the second of two identical add calls has returned, the first having
\* submitted ids with success
C2_Witness ==
    /\ pc = "mgr" /\ obs.last.op = "add" /\ obs.last.prior # <<>>
    /\ obs.last.prior[1] /\ obs.last.prior[2] > 0
    /\ obs.last.ret = 0

\* the ids of fetched_recipes persisted, at the start of the run, for the
\* export file of the run
PersistedFetched ==
    IF obs.start_file.kind = "json" /\ obs.start_file.data.export_file = export_file
    THEN DOMAIN obs.start_file.data.fetched_recipes
    ELSE {}

\* C3: in an import run, get_recipe_details is called only for export recipes
\* absent from the fetched_recipes persisted for this export file when the run
\* started; a failed fetch leaves the recipe out of fetched_recipes (in memory
\* and in the state persisted for this export) and the loop goes on to the delay step of that recipe and then
\* to the rest; when the stage ends every such absent recipe has been tried.
C3_FetchResume ==
    tool = "import" =>
        /\ call.op = "details" =>
            /\ call.rids[1] \in ListToSet(export_data.all_recipes) \ PersistedFetched
            /\ pc = "fetch_sleep"
            /\ call.res = "raise" =>
                /\ call.rids[1] \notin DOMAIN state.fetched_recipes
                /\ (state_file.kind = "json" /\ state_file.data.export_file = export_file) =>
                        call.rids[1] \notin DOMAIN state_file.data.fetched_recipes
            /\ call.res = "ok" =>
                /\ call.rids[1] \in DOMAIN state.fetched_recipes
                /\ state_file = import_save_state(state)
        /\ pc = "classify_begin" =>
                obs.attempted = ListToSet(export_data.all_recipes) \ PersistedFetched

\* C3 witness: the run before stored recipe 1 and not recipe 2 (its fetch
\* failed or the run was stopped); this run fetches recipe 2 only.
C3_Witness ==
    /\ tool = "import" /\ run = 2
    /\ PersistedFetched = {1}
    /\ pc = "classify_begin"
    /\ obs.attempted = {2}

\* the members, in the account, of the collections with the given name
MembersOf(account, name) ==
    UNION {account[cid].recipes : cid \in {c \in DOMAIN account : account[c].name = name}}

\* C4 (as stated): at the end of a complete import run (not dry) in which every
\* call succeeded, every classified recipe is a member of a collection named
\* after its classification, such a collection holds only recipes classified
\* to it and the members it had before the run, and assigned_recipes is the
\* set of the classified recipes.
C4_ImportResult ==
    (tool = "import" /\ pc = "done" /\ ~dry_run /\ obs.run_ok
                     /\ export_data.all_recipes # <<>>) =>
        /\ \A rid \in DOMAIN state.classifications :
                rid \in MembersOf(remote, GroupName(state.classifications[rid]))
        /\ \A rid \in DOMAIN state.classifications :
            LET name == GroupName(state.classifications[rid]) IN
            MembersOf(remote, name) \subseteq
                {r \in DOMAIN state.classifications :
                        GroupName(state.classifications[r]) = name}
                \cup MembersOf(obs.start_remote, name)
        /\ state.assigned_recipes = DOMAIN state.classifications

\* the legacy two-level collections of an account
LegacyIds(account) ==
    {cid \in DOMAIN account : parse_two_level_name(account[cid].name) # NoMatch}

\* C5 (as stated): at the end of a complete organize run (not dry) in which
\* every gateway call succeeded, every recipe outside the managed set that was
\* a member of a legacy collection when the run loaded the account is a member
\* of the flat collection of the dish type, and no legacy collection is left
\* in the account or in the cache.
C5_OrganizeResult ==
    (tool = "organize" /\ pc = "done" /\ ~dry_run /\ obs.run_ok) =>
        /\ \A cid \in LegacyIds(obs.start_remote) :
            \A rid \in obs.start_remote[cid].recipes \ managed_recipes :
                rid \in MembersOf(remote,
                    translate_dish_type(parse_two_level_name(obs.start_remote[cid].name)[2]))
        /\ LegacyIds(remote) = {}
        /\ \A name \in DOMAIN collections_cache : parse_two_level_name(name) = NoMatch

\* C6 (as stated): a recipe whose add call failed in the import organize stage
\* is not in the persisted assigned_recipes.
C6_FailedAddNotAssigned ==
    (tool = "import" /\ state_file.kind = "json") =>
        ListToSet(state_file.data.assigned_recipes) \cap obs.add_failed = {}

\* C7 (as stated): a gateway error of a create, add, remove or delete call does
\* not end the run: the loop over the collections goes on.
C7_GatewayErrorDoesNotAbort ==
    (call.op \in Mutations /\ call.res = "raise") => pc # "error"

\* C8: an organize run in dry-run mode makes no create, add, remove or delete
\* call, leaves the account as it was, keeps every field of the state as it
\* was loaded and does not write the state file.
C8_OrganizeDryRun ==
    (tool = "organize" /\ run > 0 /\ dry_run) =>
        /\ call.op \notin Mutations
        /\ remote = obs.start_remote
        /\ state = obs.loaded
        /\ state_file = obs.start_file

\* C8 witness: a dry run over an account with a legacy collection that has
\* members and a flat collection holding a managed recipe has gone through
\* all its stages.
C8_Witness ==
    /\ tool = "organize" /\ dry_run /\ pc = "done" /\ obs.run_ok
    /\ \E cid \in LegacyIds(remote) : remote[cid].recipes # {}
    /\ \E cid \in DOMAIN remote \ LegacyIds(remote) :
            remote[cid].recipes \cap managed_recipes # {}
    /\ obs.start_file.kind = "json"

\* C9: an import run in dry-run mode makes no create or add call and never
\* enters the organize stage, leaves the account, created_collections and
\* assigned_recipes as they were, and still fetches every recipe that is not
\* persisted and saves the state after each successful fetch and each
\* classified batch.
C9_ImportDryRun ==
    (tool = "import" /\ run > 0 /\ dry_run) =>
        /\ call.op \notin Mutations
        /\ pc \notin {"org_load", "org_group", "org_add"}
        /\ remote = obs.start_remote
        /\ state.created_collections = obs.loaded.created_collections
        /\ state.assigned_recipes = obs.loaded.assigned_recipes
        /\ (call.op \in {"details", "classify"} /\ call.res # "raise") =>
                state_file = import_save_state(state)
        /\ (pc = "done" /\ export_data.all_recipes # <<>>) =>
                obs.attempted = ListToSet(export_data.all_recipes) \ PersistedFetched

\* C9 witness: a dry run has fetched and classified, the classifications are on
\* disk and nothing is assigned.
C9_Witness ==
    /\ tool = "import" /\ dry_run /\ pc = "done"
    /\ obs.attempted # {}
    /\ DOMAIN state.classifications # {}
    /\ state_file = import_save_state(state)
    /\ state.assigned_recipes = {}

\* the state file found at the start of the run was written for another export
OtherExport ==
    /\ run > 0
    /\ obs.start_file.kind = "json"
    /\ obs.start_file.data.export_file # export_file

\* C10: when the state file found at the start of a run was written for
\* another export file, the run starts from a state with every mapping and set
\* empty, in both pipelines, and skips nothing: the import run tries every
\* recipe of the export, a complete organize run in which every call succeeds
\* flattens and deletes every legacy collection of the account.
C10_StateOfOtherExportIgnored ==
    OtherExport =>
        /\ obs.loaded.export_file = export_file
        /\ tool = "import" =>
            /\ obs.loaded.fetched_recipes = EmptyDict
            /\ obs.loaded.classifications = EmptyDict
            /\ obs.loaded.created_collections = EmptyDict
            /\ obs.loaded.assigned_recipes = {}
            /\ pc = "classify_begin" => obs.attempted = ListToSet(export_data.all_recipes)
        /\ tool = "organize" =>
            /\ obs.loaded.flattened_collections = {}
            /\ obs.loaded.created_collections = EmptyDict
            /\ obs.loaded.removed_managed_recipes = EmptyDict
            /\ obs.loaded.deleted_collections = {}
            /\ (pc = "done" /\ ~dry_run /\ obs.run_ok) =>
                    /\ LegacyIds(obs.start_remote) \subseteq state.flattened_collections
                    /\ LegacyIds(obs.start_remote) \subseteq state.deleted_collections

\* C10 witness: an import run for export B found the progress of export A
\* (recipes fetched) and has fetched all the recipes again.
C10_Witness ==
    /\ tool = "import" /\ OtherExport
    /\ DOMAIN obs.start_file.data.fetched_recipes = Recipes
    /\ pc = "classify_begin"
    /\ obs.attempted = Recipes

\* the state file holds no usable state for the export of the run
Unusable(file, f) ==
    \/ file.kind \in {"text", "value", "misshapen"}
    \/ file.kind = "json" /\ DictGet(file.data, "export_file", "") # f

\* C11 (as stated): when the state file is unparseable, not a JSON object,
\* lacks export_file, names another export or has a field of the wrong shape,
\* _load_state raises nothing and returns a fresh empty state, in both
\* pipelines.
C11_UnusableStateIsFresh ==
    (call.op = "load_state" /\ Unusable(state_file, export_file)) =>
        /\ pc = "constructed"
        /\ call.res = "fresh"
        /\ state = IF tool = "import" THEN NewImportState(export_file)
                   ELSE NewOrganizeState(export_file)

\* C12: ImportState.from_dict(s.to_dict()) equals s in the five fields.
C12_ImportStateRoundTrip ==
    pc = "round_trip" =>
        /\ state = cur.s
        /\ DOMAIN state = {"export_file", "fetched_recipes", "classifications",
                           "created_collections", "assigned_recipes"}
        /\ state.assigned_recipes = ListToSet(cur.data.assigned_recipes)

\* C12 witness: a state with two assigned recipes (its list has two elements)
\* and something in the three mappings has made the round trip.
C12_Witness ==
    /\ pc = "round_trip"
    /\ Len(cur.data.assigned_recipes) = 2
    /\ Cardinality(state.assigned_recipes) = 2
    /\ state.fetched_recipes # EmptyDict
    /\ state.classifications # EmptyDict
    /\ state.created_collections # EmptyDict

\* C13: translate_dish_type gives, for each of the 9 DishType values, one of
\* the 9 DishTypeEN values, no two DishType values give the same one, and
\* every DishTypeEN value is given.
C13_TranslationBijective ==
    pc = "translated" =>
        /\ cur.spanish \in DishType
        /\ cur.english \in DishTypeEN
        /\ \A d \in DishType \ {cur.spanish} : translate_dish_type(d) # cur.english
        /\ DOMAIN DISH_TYPE_TRANSLATIONS = DishType
        /\ {translate_dish_type(d) : d \in DishType} = DishTypeEN
        /\ Cardinality(DishType) = 9
        /\ Cardinality(DishTypeEN) = 9

\* C13 witness: the dish type with the two-word translation has been translated.
C13_Witness ==
    /\ pc = "translated"
    /\ cur.spanish = "Arroces"
    /\ cur.english = <<"Rice", "Dishes">>

\* the name is a prefix, a season, the separator and a dish type
TwoLevelShape(name) ==
    /\ Len(name) >= 4
    /\ name[Len(name) - 2] \in {"Primavera", "Verano", "Otono", "Invierno"}
    /\ name[Len(name) - 1] = ">"
    /\ name[Len(name)] \in {"Sopas", "Ensaladas", "Carnes", "Pescados", "Pastas",
                            "Arroces", "Postres", "Panes", "Salsas"}

\* C14: _parse_two_level_name gives (season, dish type) for a name made of a
\* prefix, an exact season, ">" and an exact dish type, in particular for every
\* get_collection_name(s, d), and None for every other name.
C14_ParseInvertsLegacyName ==
    pc = "parsed" =>
        /\ TwoLevelShape(cur.name) =>
                cur.parsed = <<cur.name[Len(cur.name) - 2], cur.name[Len(cur.name)]>>
        /\ ~TwoLevelShape(cur.name) => cur.parsed = NoMatch
        /\ \A s \in Season, d \in DishType :
                cur.name = get_collection_name(s, d) => cur.parsed = <<s, d>>

\* C14 witness: the legacy name of (Verano, Pescados) has been parsed.
C14_Witness ==
    /\ pc = "parsed"
    /\ cur.name = <<"U2600", "Verano", ">", "Pescados">>
    /\ cur.parsed = <<"Verano", "Pescados">>

RECURSIVE Concat(_)
\* the ids of a sequence of batches, one after the other
Concat(batches) ==
    IF batches = <<>> THEN <<>> ELSE Head(batches).rids \o Concat(Tail(batches))

RECURSIVE Successful(_)
\* the number of ids in the batches the gateway accepted
Successful(batches) ==
    IF batches = <<>> THEN 0
    ELSE (IF Head(batches).res = "ok" THEN Len(Head(batches).rids) ELSE 0)
         + Successful(Tail(batches))

\* C15: add_recipes_to_collection submits the ids that are not cached for the
\* collection in consecutive batches of at most 50, in the order given; a
\* refused batch is not cached, the accepted batches before it stay cached,
\* the batches after it are still submitted, and the count returned is the
\* number of ids in the accepted batches.
C15_AddInBatches ==
    (tool = "batches" /\ obs.last.op = "add") =>
        LET new_ids == SelectSeq(obs.last.rids, LAMBDA rid : rid \notin obs.last.existing)
            log == cur.batches
            cached == DictGet(collection_recipes, obs.last.cid, {})
        IN /\ Concat(log) \o inner = new_ids
           /\ \A i \in DOMAIN log :
                /\ Len(log[i].rids) \in 1..50
                /\ log[i].res = "raise" => ListToSet(log[i].rids) \cap cached = {}
                /\ log[i].res = "ok" => ListToSet(log[i].rids) \subseteq cached
           /\ pc = "mgr" => /\ Concat(log) = new_ids
                            /\ obs.last.ret = Successful(log)

\* C15 witness: an add of three batches has returned, the second batch was
\* refused, and some of the ids given were cached before.
C15_Witness ==
    /\ tool = "batches" /\ pc = "mgr" /\ obs.last.op = "add"
    /\ Len(cur.batches) = 3
    /\ cur.batches[1].res = "ok"
    /\ cur.batches[2].res = "raise"
    /\ cur.batches[3].res = "ok"
    /\ obs.last.existing # {}
    /\ obs.last.ret = Len(cur.batches[1].rids) + Len(cur.batches[3].rids)
    /\ Len(cur.batches[3].rids) < 50

\* C16: a remove_recipe_from_collection or delete_collection whose gateway call
\* fails returns False and leaves both caches as they were; one whose gateway
\* call succeeds returns True, and the recipe is no longer in the cached
\* member set, respectively the collection's name and member set are no
\* longer cached (nothing else in the caches changes).
C16_RemoveAndDeleteOutcome ==
    [][(tool = "manager" /\ call'.op \in {"remove", "delete"}) =>
        LET cid == call'.cid
            ret == obs'.last.ret
        IN /\ call'.res = "raise" =>
                /\ ret = FALSE
                /\ collections_cache' = collections_cache
                /\ collection_recipes' = collection_recipes
           /\ (call'.res = "ok" /\ call'.op = "remove") =>
                /\ ret = TRUE
                /\ collections_cache' = collections_cache
                /\ DOMAIN collection_recipes' = DOMAIN collection_recipes
                /\ \A c \in DOMAIN collection_recipes :
                        collection_recipes'[c] =
                            IF c = cid THEN collection_recipes[c] \ {call'.rids[1]}
                            ELSE collection_recipes[c]
           /\ (call'.res = "ok" /\ call'.op = "delete") =>
                /\ ret = TRUE
                /\ DOMAIN collection_recipes' = DOMAIN collection_recipes \ {cid}
                /\ \A c \in DOMAIN collection_recipes' :
                        collection_recipes'[c] = collection_recipes[c]
                /\ DOMAIN collections_cache' =
                        {n \in DOMAIN collections_cache : collections_cache[n] # cid}
                /\ \A n \in DOMAIN collections_cache' :
                        collections_cache'[n] = collections_cache[n]
    ]_vars

\* C16 witness: the gateway has refused the removal of a recipe that the
\* cache and the account hold in the collection; it is still in both.
C16_Witness ==
    /\ tool = "manager"
    /\ call.op = "remove" /\ call.res = "raise"
    /\ obs.last.op = "remove" /\ obs.last.ret = FALSE
    /\ call.cid \in DOMAIN collection_recipes
    /\ call.rids[1] \in collection_recipes[call.cid]
    /\ call.rids[1] \in remote[call.cid].recipes

\* the classify_batch calls among the events of a classify_all, in order
Calls(events) == SelectSeq(events, LAMBDA e : e.ev = "classify")

RECURSIVE Batches(_)
\* the recipes of a sequence of classify_batch calls, one batch after the other
Batches(calls) ==
    IF calls = <<>> THEN <<>> ELSE Head(calls).batch \o Batches(Tail(calls))

RECURSIVE Returned(_)
\* the results of the calls that returned, one batch after the other
Returned(calls) ==
    IF calls = <<>> THEN <<>>
    ELSE (IF Head(calls).response.kind = "raise" THEN <<>> ELSE Head(calls).results)
         \o Returned(Tail(calls))

\* C17: when classify_all has returned, every batch has been passed to
\* classify_batch exactly once, whether or not an earlier batch raised (the
\* batches of the calls, in order, are the input list); a batch that raised
\* contributes no result; and the list returned is the concatenation of what
\* the calls that did not raise returned.
C17_BatchErrorIsSkipped ==
    (tool = "classifier" /\ pc = "classified") =>
        LET calls == Calls(cur.events) IN
        /\ todo = <<>>
        /\ Batches(calls) = cur.recipes
        /\ \A i \in DOMAIN calls :
                calls[i].response.kind = "raise" => calls[i].results = <<>>
        /\ inner = Returned(calls)

\* C17 witness: classify_all has returned after three batches, of which the
\* second raised and the others gave results.
C17_Witness ==
    /\ tool = "classifier" /\ pc = "classified"
    /\ Len(Calls(cur.events)) = 3
    /\ Calls(cur.events)[1].response.kind = "json"
    /\ Calls(cur.events)[2].response.kind = "raise"
    /\ Calls(cur.events)[3].response.kind = "json"
    /\ Len(inner) = BATCH_SIZE + 1

C19_ConsecutiveBatches ==
    (tool = "classifier" /\ pc # "idle") =>
        LET calls == Calls(cur.events) IN
        /\ Batches(calls) \o todo = cur.recipes
        /\ \A i \in DOMAIN calls :
            /\ Len(calls[i].batch) \in 1..20
            /\ Len(calls[i].batch) < 20 => (i = Len(calls) /\ todo = <<>>)

\* C19 witness: a list of 41 recipes in descending order has been classified
\* in batches of 20, 20 and 1.
C19_Witness ==
    /\ tool = "classifier" /\ pc = "classified"
    /\ Len(cur.recipes) = 41 /\ cur.recipes[1] = 41
    /\ Len(Calls(cur.events)) = 3
    /\ Len(Calls(cur.events)[2].batch) = 20
    /\ Calls(cur.events)[3].batch = <<1>>

\* C20: what classify_batch returns for a JSON response is one classification
\* for each item that names a recipe of the batch with a season and a dish
\* type of the enumerations, in the order of the items (the other items are
\* dropped and change nothing else), with the item's confidence, or 0.8 when
\* it has none; for a response that is not JSON it returns the empty list.
C20_ClassifyBatchResults ==
    (tool = "classifier" /\ pc # "idle") =>
        \A i \in DOMAIN cur.events :
            LET e == cur.events[i] IN
            (e.ev = "classify" /\ e.response.kind # "raise") =>
                LET valid == ValidItems(e.response.items, e.batch) IN
                /\ e.response.kind = "malformed" => e.results = <<>>
                /\ Len(e.results) = Len(valid)
                /\ \A k \in DOMAIN e.results :
                    /\ e.results[k].recipe_id = valid[k].id
                    /\ e.results[k].recipe_id \in ListToSet(e.batch)
                    /\ e.results[k].season = valid[k].season
                    /\ e.results[k].dish_type = valid[k].dish_type
                    /\ e.results[k].confidence =
                            IF "confidence" \in DOMAIN valid[k]
                            THEN valid[k].confidence ELSE 8

\* C20 witness: a batch of 20 has been answered with an item outside the
\* enumerations, an item with an unknown id, an item with a confidence and
\* items without; the 19 valid items were returned.
C20_Witness ==
    /\ tool = "classifier" /\ pc # "idle"
    /\ \E i \in DOMAIN cur.events :
        LET e == cur.events[i] IN
        /\ e.ev = "classify" /\ e.response.kind = "json"
        /\ Len(e.batch) = 20 /\ Len(e.response.items) = 21
        /\ Len(e.results) = 19
        /\ \E k \in DOMAIN e.results : e.results[k].confidence = 9
        /\ \E k \in DOMAIN e.results : e.results[k].confidence = 8

\* the run before this one completed, every external call of it succeeded, and
\* it had the export file of this run
AfterCompleteRun ==
    /\ run >= 2
    /\ obs.prev.pc = "done"
    /\ obs.prev.run_ok
    /\ obs.prev.export_file = export_file

\* C21 (as stated): a run that follows a completed run with the same export
\* file, all of whose calls succeeded, issues no get_recipe_details, classifier,
\* create or add call (import), and no create, add, remove or delete call
\* (organize).
C21_RerunSkipsEverything ==
    AfterCompleteRun =>
        IF tool = "import"
        THEN call.op \notin {"details", "classify", "create", "add"}
        ELSE call.op \notin {"create", "add", "remove", "delete"}

\* C21 (amended): a run that follows a completed run that was not a dry run,
\* had the same export file and all of whose calls succeeded skips the
\* completed work: an organize run issues no create, add, remove or delete
\* call; an import run issues no get_recipe_details call, and no classifier,
\* create or add call when the state it loaded holds a classification for
\* every recipe of the export.
C21_RerunSkipsCompletedWork ==
    (AfterCompleteRun /\ ~obs.prev.dry_run) =>
        IF tool = "import"
        THEN /\ call.op # "details"
             /\ ListToSet(export_data.all_recipes)
                    \subseteq DOMAIN obs.loaded.classifications
                 => call.op \notin {"classify", "create", "add"}
        ELSE call.op \notin {"create", "add", "remove", "delete"}

\* C21 witness: the second of two import runs that were not dry runs has
\* completed; the first one had classified and assigned every recipe.
C21_Witness ==
    /\ tool = "import" /\ AfterCompleteRun /\ ~obs.prev.dry_run
    /\ ~dry_run /\ pc = "done" /\ obs.run_ok
    /\ obs.loaded.assigned_recipes = Recipes
    /\ DOMAIN obs.loaded.classifications = Recipes
    /\ state.assigned_recipes = Recipes

\* C22: a step of a run never takes a key out of fetched_recipes,
\* classifications or created_collections, nor an element out of
\* assigned_recipes (import); nor an element or key out of
\* flattened_collections, created_collections, removed_managed_recipes (or
\* out of one of its sets) or deleted_collections (organize).
C22_StateOnlyGrows ==
    [][(run > 0 /\ run' = run) =>
        IF tool = "import"
        THEN /\ DOMAIN state.fetched_recipes \subseteq DOMAIN state'.fetched_recipes
             /\ DOMAIN state.classifications \subseteq DOMAIN state'.classifications
             /\ DOMAIN state.created_collections
                    \subseteq DOMAIN state'.created_collections
             /\ state.assigned_recipes \subseteq state'.assigned_recipes
        ELSE /\ state.flattened_collections \subseteq state'.flattened_collections
             /\ DOMAIN state.created_collections
                    \subseteq DOMAIN state'.created_collections
             /\ \A k \in DOMAIN state.removed_managed_recipes :
                    /\ k \in DOMAIN state'.removed_managed_recipes
                    /\ state.removed_managed_recipes[k]
                            \subseteq state'.removed_managed_recipes[k]
             /\ state.deleted_collections \subseteq state'.deleted_collections
    ]_vars

\* C22 witness: an import run that had loaded a state with one classification
\* and one assigned recipe has classified and assigned the other recipe too.
C22_Witness ==
    /\ tool = "import" /\ run = 2 /\ pc = "done"
    /\ Cardinality(DOMAIN obs.loaded.classifications) = 1
    /\ Cardinality(obs.loaded.assigned_recipes) = 1
    /\ DOMAIN state.classifications = Recipes
    /\ state.assigned_recipes = Recipes
    /\ Cardinality(DOMAIN state.created_collections) = 2

\* C23 (as stated): no gateway mutation (create, add, remove, delete) is issued
\* by the step that follows the step of another gateway mutation: a delay
\* step lies between them.
C23_DelayBetweenMutations ==
    [][(run' = run /\ call'.op \in Mutations /\ call'.res # "cut")
            => call.op \notin Mutations]_vars

\* the organize run before this one was interrupted, it had the export file of
\* this run, and it had persisted a state
AfterInterruptedOrganize ==
    /\ tool = "organize" /\ run >= 2
    /\ obs.prev.pc = "interrupted"
    /\ obs.prev.export_file = export_file
    /\ obs.start_file.kind = "json"

\* C24: an organize run that follows an interrupted run with the same export
\* file starts from the state the interrupted run persisted last, and issues
\* no create or add call for a legacy collection whose id that state holds in
\* flattened_collections, no remove call for a (collection, recipe) pair it
\* holds in removed_managed_recipes, and no delete call for an id it holds in
\* deleted_collections.
C24_OrganizeResumes ==
    AfterInterruptedOrganize =>
        LET persisted == obs.start_file.data IN
        /\ obs.loaded = OrganizeState_from_dict(persisted)
        /\ (call.op \in {"create", "add"} /\ call.res # "cut") =>
                Head(todo).col_id \notin ListToSet(persisted.flattened_collections)
        /\ (call.op = "remove" /\ call.res # "cut") =>
                call.rids[1] \notin
                    ListToSet(DictGet(persisted.removed_managed_recipes, call.cid, <<>>))
        /\ (call.op = "delete" /\ call.res # "cut") =>
                call.cid \notin ListToSet(persisted.deleted_collections)

\* C24 witness: a run that followed an interrupted run has completed; the
\* interrupted run had persisted a flattened collection, a removal and a
\* deletion, and this run has deleted one more collection.
C24_Witness ==
    /\ AfterInterruptedOrganize /\ pc = "done" /\ ~dry_run
    /\ obs.loaded.flattened_collections # {}
    /\ obs.loaded.removed_managed_recipes # EmptyDict
    /\ obs.loaded.deleted_collections # {}
    /\ state.deleted_collections # obs.loaded.deleted_collections

\* C25 (as stated): between two groups of the import organize stage, the state
\* file records the recipes of the groups processed so far in
\* assigned_recipes and their collections in created_collections.
C25_GroupProgressPersisted ==
    (tool = "import" /\ pc = "org_group" /\ state_file.kind = "json") =>
        /\ new_assigned \subseteq ListToSet(state_file.data.assigned_recipes)
        /\ DOMAIN created \subseteq DOMAIN state_file.data.created_collections

\* the recipes of a sequence of groups
GroupRecipes(groups) == UNION {ListToSet(groups[i].recipe_ids) : i \in DOMAIN groups}

\* C26: in the import organize stage, the recipes of the groups processed so
\* far are all in the assigned set being built, whether or not an add call was
\* issued for them, and the stage returns them together with the recipes
\* assigned before; a recipe assigned before the stage is in no group, and no
\* create or add call is made for a group holding it.
C26_GroupRecipesAssigned ==
    (tool = "import" /\ run > 0) =>
        LET before == obs.loaded.assigned_recipes
            groups == SortedGroups(state.classifications, before)
        IN /\ pc = "org_group" =>
                /\ new_assigned = GroupRecipes(groups) \ GroupRecipes(todo)
                /\ GroupRecipes(todo) \cap before = {}
           /\ pc = "org_add" => GroupRecipes(todo) \cap before = {}
           /\ (call.op = "add" /\ call.res # "cut") =>
                ListToSet(call.rids) \cap before = {}
           /\ (call.op = "create" /\ call.res # "cut") =>
                \E i \in DOMAIN groups :
                    /\ groups[i].collection_name = call.name
                    /\ ListToSet(groups[i].recipe_ids) \cap before = {}
           /\ (pc = "done" /\ ~dry_run /\ export_data.all_recipes # <<>>) =>
                state.assigned_recipes = before \cup DOMAIN state.classifications

\* C26 witness: a group whose recipe was already a member of its collection in
\* the account has just been processed without a gateway call, its recipe is
\* in the assigned set, and the other recipe had been assigned before.
C26_Witness ==
    /\ tool = "import" /\ pc = "org_group" /\ call.op = "none"
    /\ obs.loaded.assigned_recipes # {}
    /\ \E rid \in new_assigned :
        /\ rid \notin obs.loaded.assigned_recipes
        /\ \E cid \in DOMAIN obs.start_remote :
            /\ rid \in obs.start_remote[cid].recipes
            /\ obs.start_remote[cid].name = GroupName(state.classifications[rid])

\* C27: in the import organize stage the groups still to process are in
\* ascending order of collection name and come after every group processed
\* before; the add calls of a group are made for the collection its
\* ensure_collection has returned, and a create or add call is always for the
\* latest group, never for one before it.
C27_GroupsInNameOrder ==
    (tool = "import" /\ pc \in {"org_group", "org_add"}) =>
        LET latest(n) == \A m \in DOMAIN created : m = n \/ StrLess(m, n) IN
        /\ \A i \in DOMAIN todo : \A j \in DOMAIN todo :
                i < j => StrLess(todo[i].collection_name, todo[j].collection_name)
        /\ pc = "org_group" =>
                \A n \in DOMAIN created : \A i \in DOMAIN todo :
                    StrLess(n, todo[i].collection_name)
        /\ pc = "org_add" =>
                /\ Head(todo).collection_name \in DOMAIN created
                /\ latest(Head(todo).collection_name)
                /\ cur.collection_id = created[Head(todo).collection_name]
        /\ call.op = "create" /\ call.res \in {"ok", "noid"} =>
                /\ call.name \in DOMAIN created
                /\ latest(call.name)
        /\ call.op = "add" /\ call.res # "cut" =>
                \E n \in DOMAIN created : latest(n) /\ created[n] = call.cid

\* C27 witness: two groups have been processed, each with a create and an add.
C27_Witness ==
    /\ tool = "import" /\ pc = "org_group" /\ todo = <<>>
    /\ call.op = "add"
    /\ Cardinality(DOMAIN created) = 2
    /\ Cardinality(DOMAIN remote) = 2
    /\ new_assigned = Recipes

\* the stage of run() a position belongs to: 0 before the first stage, 1 to 3
\* the stages in their order (fetch, classify, organize; flatten, remove,
\* delete), 4 after the last
Stage(p) ==
    IF p \in {"login", "load"} THEN 0
    ELSE IF p \in {"fetch_begin", "fetch_call", "fetch_sleep",
                   "flatten_begin", "flatten_item", "flatten_add", "flatten_sleep"} THEN 1
    ELSE IF p \in {"classify_begin", "classify_call",
                   "remove_begin", "remove_item", "remove_call", "remove_sleep"} THEN 2
    ELSE IF p \in {"org_load", "org_group", "org_add",
                   "delete_begin", "delete_item", "delete_sleep"} THEN 3
    ELSE 4

\* C28: a run never goes back to an earlier stage, and each call is issued in
\* its own stage: in an import run get_recipe_details in the first, the
\* classifier in the second, create and add in the third; in an organize run
\* create and add in the first (flatten), remove in the second, delete in the
\* third. Hence every call of a stage precedes every call of a later stage.
C28_StagesInOrder ==
    [][(run > 0 /\ run' = run) =>
        /\ Stage(pc') >= Stage(pc)
        /\ call'.op = "details" => Stage(pc) = 1
        /\ call'.op = "classify" => Stage(pc) = 2
        /\ call'.op \in {"create", "add"} =>
                Stage(pc) = (IF tool = "import" THEN 3 ELSE 1)
        /\ call'.op = "remove" => Stage(pc) = 2
        /\ call'.op = "delete" => Stage(pc) = 3
    ]_vars

\* C28 witness: the first organize run has completed with every call
\* succeeding, after a create and an add, a remove and a delete.
C28_Witness ==
    /\ tool = "organize" /\ run = 1 /\ pc = "done" /\ obs.run_ok
    /\ call.op = "sleep"
    /\ state.flattened_collections # {}
    /\ state.created_collections # EmptyDict
    /\ state.removed_managed_recipes # EmptyDict
    /\ state.deleted_collections # {}
    /\ DOMAIN remote # DOMAIN obs.start_remote

\* the flatten loop is at a legacy collection without known members, and the
\* run is not interrupted there
AtEmptyLegacy ==
    /\ tool = "organize" /\ pc = "flatten_item" /\ pc' # "interrupted"
    /\ DictGet(collection_recipes, Head(todo).col_id, {}) = {}

\* the step adds the collection to flattened_collections, persists it, and
\* makes no gateway call
MarkedWithoutCall ==
    /\ Head(todo).col_id \in state'.flattened_collections
    /\ state_file'.kind = "json"
    /\ Head(todo).col_id \in ListToSet(state_file'.data.flattened_collections)
    /\ call'.op = "none"
    /\ remote' = remote

\* no step adds to flattened_collections a cached collection whose name does
\* not parse as a two-level name
OnlyLegacyMarked ==
    \A n \in DOMAIN collections_cache :
        (tool = "organize" /\ run' = run /\ parse_two_level_name(n) = NoMatch) =>
            \/ collections_cache[n] \in state.flattened_collections
            \/ collections_cache[n] \notin state'.flattened_collections

\* C29 (as stated): in the flatten stage a legacy collection with no known
\* members is added to flattened_collections and persisted without a gateway
\* call, and a cached collection whose name does not parse is never added.
C29_EmptyLegacyMarked ==
    [][(AtEmptyLegacy => MarkedWithoutCall) /\ OnlyLegacyMarked]_vars

\* C29 (amended): as stated, in a run that is not a dry run; in a dry run the
\* collection is neither added nor is anything persisted.
C29_EmptyLegacyMarkedUnlessDryRun ==
    [][/\ (AtEmptyLegacy /\ ~dry_run) => MarkedWithoutCall
       /\ (AtEmptyLegacy /\ dry_run) =>
                /\ state' = state /\ state_file' = state_file
                /\ call'.op = "none" /\ remote' = remote
       /\ OnlyLegacyMarked]_vars

\* C29 witness: a run that is not a dry run has marked and persisted a legacy
\* collection that had no members, without a gateway mutation so far, while
\* the account also holds a collection whose name does not parse.
C29_Witness ==
    /\ tool = "organize" /\ ~dry_run /\ call.op = "none"
    /\ pc \in {"flatten_item", "remove_begin"}
    /\ remote = obs.start_remote
    /\ state_file.kind = "json"
    /\ \E cid \in state.flattened_collections \ obs.loaded.flattened_collections :
        /\ remote[cid].recipes = {}
        /\ cid \in ListToSet(state_file.data.flattened_collections)
    /\ \E n \in DOMAIN collections_cache :
        /\ parse_two_level_name(n) = NoMatch
        /\ collections_cache[n] \notin state.flattened_collections

\* the remove call the stage is about to issue is for a collection that is
\* neither a legacy collection nor the managed source collection, and for a
\* recipe that is a cached member of it, is in the managed set and is not
\* recorded as removed from it
RemoveCallAllowed ==
    (tool = "organize" /\ pc = "remove_call") =>
        LET cid == Head(todo).col_id
            rid == Head(inner)
        IN /\ \E n \in DOMAIN collections_cache :
                /\ collections_cache[n] = cid
                /\ n = Head(todo).name
                /\ parse_two_level_name(n) = NoMatch
                /\ n # <<"[Managed]", "Ideas", "sencillas">>
           /\ rid \in DictGet(collection_recipes, cid, {})
           /\ rid \in managed_recipes
           /\ rid \in ListToSet(export_data.managed)
           /\ rid \notin DictGet(state.removed_managed_recipes, cid, {})

\* a removal is recorded and persisted by the step of its remove call when the
\* call succeeded, and by no other step of a run; a remove call is issued from
\* the position RemoveCallAllowed is about
RemovalRecorded ==
    (tool = "organize" /\ run' = run) =>
        /\ (call'.op = "remove" /\ call'.res # "cut") =>
                /\ pc = "remove_call"
                /\ call'.cid = Head(todo).col_id /\ call'.rids = <<Head(inner)>>
                /\ pc' = "remove_sleep"
        /\ (call'.op = "remove" /\ call'.res = "ok") =>
                /\ call'.rids[1] \in state'.removed_managed_recipes[call'.cid]
                /\ state_file' = organize_save_state(state')
                /\ call'.rids[1] \notin remote'[call'.cid].recipes
        /\ (call'.op = "remove" /\ call'.res = "raise") =>
                /\ state' = state
                /\ state_file' = state_file
        /\ state'.removed_managed_recipes # state.removed_managed_recipes =>
                (call'.op = "remove" /\ call'.res = "ok")

\* C30: the remove-managed stage issues a remove call only for a collection
\* that is neither legacy nor the managed source collection and a recipe that
\* is a cached member of it, is in the managed set and is not recorded as
\* removed from it; a removal is recorded and persisted only by the step of a
\* remove call that succeeded, hence before the next remove call.
C30_RemoveOnlyManaged ==
    []RemoveCallAllowed /\ [][RemovalRecorded]_vars

\* C30 witness: a managed recipe has been removed from a flat collection that
\* also holds a recipe outside the managed set, which is still a member; the
\* removal is recorded and persisted.
C30_Witness ==
    /\ tool = "organize" /\ pc = "remove_sleep"
    /\ call.op = "remove" /\ call.res = "ok"
    /\ call.rids[1] \in state.removed_managed_recipes[call.cid]
    /\ state_file = organize_save_state(state)
    /\ \E rid \in remote[call.cid].recipes : rid \notin managed_recipes

\* C31: after a non-dry-run organize run that completed with every gateway
\* call succeeding, also one that resumed from a persisted OrganizeState on an
\* account that changed between the runs, no cached collection other than the
\* legacy two-level ones (and the managed source collection itself) has a
\* managed recipe among its members
C31_NoManagedRecipeLeft ==
    (tool = "organize" /\ pc = "done" /\ ~dry_run /\ obs.run_ok) =>
        \A n \in DOMAIN collections_cache :
            \/ parse_two_level_name(n) # NoMatch
            \/ n = managed_key
            \/ DictGet(collection_recipes, collections_cache[n], {})
                    \cap managed_recipes = {}

\* the export has no "[Managed] Ideas sencillas" entry, or an empty one
NoManagedEntry == ~export_data.has_managed \/ export_data.managed = <<>>

\* C32: when the export file has no "[Managed] Ideas sencillas" entry, or an
\* empty one, no step of an organize run issues a remove call or changes
\* removed_managed_recipes, and the removal stage passes straight on to the
\* delete stage
C32_NoManagedEntryNoRemoval ==
    [][(tool = "organize" /\ NoManagedEntry /\ pc \notin Terminal) =>
          /\ call'.op # "remove"
          /\ state'.removed_managed_recipes = state.removed_managed_recipes
          /\ pc = "remove_begin" => pc' = "delete_begin"]_vars

\* a run on an export with an empty managed entry has flattened and deleted
C32_Witness ==
    /\ tool = "organize" /\ pc = "done" /\ ~dry_run
    /\ export_data.has_managed /\ NoManagedEntry
    /\ state.flattened_collections # {} /\ state.deleted_collections # {}
    /\ state.removed_managed_recipes = EmptyDict

\* the delete call of a step is for a cached legacy collection not yet recorded
DeleteCallAllowed ==
    (call'.op = "delete" /\ call'.res # "cut") =>
        /\ call'.cid \notin state.deleted_collections
        /\ \E n \in DOMAIN collections_cache :
              /\ collections_cache[n] = call'.cid
              /\ parse_two_level_name(n) # NoMatch

\* a collection that leaves the account had a legacy name
OnlyLegacyLeaves ==
    \A cid \in DOMAIN remote \ DOMAIN remote' :
        parse_two_level_name(remote[cid].name) # NoMatch

\* deleted_collections changes only by the id of a successful delete call,
\* and is saved at once
DeletionRecorded ==
    state'.deleted_collections # state.deleted_collections =>
        /\ call'.op = "delete" /\ call'.res = "ok"
        /\ state'.deleted_collections = state.deleted_collections \cup {call'.cid}
        /\ state_file' = organize_save_state(state')

\* C33: the delete stage issues a delete call only for a cached collection
\* whose name parses as a legacy two-level name and whose id is not in
\* deleted_collections; no collection with another name is deleted by the
\* organize pipeline; an id enters deleted_collections, and is persisted, only
\* when its delete call succeeded
C33_DeleteOnlyLegacy ==
    [][(tool = "organize" /\ pc \notin Terminal) =>
          DeleteCallAllowed /\ OnlyLegacyLeaves /\ DeletionRecorded]_vars

\* a legacy collection has been deleted and recorded while a collection with
\* another name is still in the account
C33_Witness ==
    /\ tool = "organize" /\ call.op = "delete" /\ call.res = "ok"
    /\ call.cid \in state.deleted_collections
    /\ call.cid \notin DOMAIN remote
    /\ \E cid \in DOMAIN remote : parse_two_level_name(remote[cid].name) = NoMatch

\* C34: every collection the delete stage issues a delete call for has been
\* flattened: its id is in flattened_collections when the call is issued
C34_DeleteOnlyFlattened ==
    [][(tool = "organize" /\ pc \notin Terminal /\ call'.op = "delete"
            /\ call'.res # "cut") =>
          call'.cid \in state.flattened_collections]_vars

\* a delete call for the second of two legacy collections, both flattened
C34_Witness ==
    /\ tool = "organize" /\ call.op = "delete" /\ call.res = "ok"
    /\ call.cid \in state.flattened_collections
    /\ Cardinality(state.flattened_collections) = 2
    /\ Cardinality(state.deleted_collections) = 2

\* the cached members of the flat target collection of a legacy collection
TargetMembers(cache, recipes, name) ==
    DictGet(recipes,
            DictGet(cache, translate_dish_type(parse_two_level_name(name)[2]), None), {})

\* C35: no recipe is lost by the migration, also when gateway calls fail: a
\* legacy collection is marked flattened (and with that left to the delete
\* stage) only when every one of its known members is a cached member of the
\* flat target collection
C35_FlattenedOnlyWhenMoved ==
    [][(tool = "organize" /\ pc \notin Terminal) =>
          \A cid \in state'.flattened_collections \ state.flattened_collections :
              \A n \in DOMAIN collections_cache' :
                  collections_cache'[n] = cid =>
                      DictGet(collection_recipes', cid, {})
                          \subseteq TargetMembers(collections_cache', collection_recipes', n)]_vars

\* C36: an ensure_collection call that returns, returns a non-null id that the
\* cache holds under the given name together with a member set, also when the
\* gateway's create response carries no id
C36_EnsureReturnsCachedId ==
    (obs.last.op = "ensure" /\ obs.last.ok) =>
        /\ obs.last.ret # None
        /\ DictGet(collections_cache, obs.last.name, None) = obs.last.ret
        /\ obs.last.ret \in DOMAIN collection_recipes

\* C37: the cache of a Collection Manager that has loaded the account agrees
\* with the account after every operation, when each gateway call takes full
\* effect or fails without effect and nobody else changes the account: the
\* cached names and ids are those of the remote collections, and the cached
\* member set of each collection is its remote membership
C37_CacheRefinesAccount ==
    (tool = "manager" /\ pc = "mgr") =>
        /\ {<<n, collections_cache[n]>> : n \in DOMAIN collections_cache}
              = {<<remote[cid].name, cid>> : cid \in DOMAIN remote}
        /\ DOMAIN collection_recipes = DOMAIN remote
        /\ \A cid \in DOMAIN remote : collection_recipes[cid] = remote[cid].recipes

\* the positions of an import run after its classify stage
ClassifyEnded == {"org_load", "org_group", "org_add", "done"}

\* the fetched recipes that had no classification when the run started
Unclassified == DOMAIN state.fetched_recipes \ DOMAIN obs.loaded.classifications

\* the recipes sent to the classifier by this run: each at most once and none
\* that was classified; after the stage, every unclassified one; the stored
\* classifications are the loaded ones and those the responses carried, each
\* under its recipe id; what the run before left unanswered has been sent again
ClassifiedOnce ==
    (tool = "import" /\ run > 0 /\ export_data.all_recipes # <<>>
        /\ pc \in {"classify_call"} \cup ClassifyEnded) =>
        /\ Cardinality(ListToSet(obs.sent)) = Len(obs.sent)
        /\ ListToSet(obs.sent) \subseteq Unclassified
        /\ DOMAIN state.classifications
              = DOMAIN obs.loaded.classifications \cup obs.answered
        /\ \A rid \in DOMAIN state.classifications :
              state.classifications[rid].recipe_id = rid
        /\ pc \in ClassifyEnded =>
              /\ ListToSet(obs.sent) = Unclassified
              /\ obs.prev.export_file = export_file =>
                    obs.prev.unanswered \subseteq ListToSet(obs.sent)

\* the state is saved after every batch that returned
BatchPersisted ==
    (tool = "import" /\ call'.op = "classify" /\ call'.res # "raise") =>
        state_file' = import_save_state(state')

\* C38: in the classify stage of an import run every fetched recipe without a
\* classification is part of exactly one classifier call and a classified one
\* of none; after each batch that returned, the classifications it carried are
\* stored under their recipe id and the state is saved; a recipe that got no
\* valid classification stays without one and is sent again by the next run
C38_ClassifyPendingOnce == []ClassifiedOnce /\ [][BatchPersisted]_vars

\* the second run sends recipe 2 again, which the first run sent without
\* getting a valid classification, and not recipe 1, which is classified
C38_Witness ==
    /\ tool = "import" /\ run = 2 /\ pc \in ClassifyEnded
    /\ obs.prev.unanswered = {2} /\ obs.prev.export_file = export_file
    /\ 1 \in DOMAIN obs.loaded.classifications
    /\ obs.sent = <<2>> /\ obs.answered = {2}
    /\ DOMAIN state_file.data.classifications = {1, 2}

\* C39: a run started with one export file while the state file holds the
\* progress recorded for another leaves that record as it found it
C39_OtherExportProgressKept ==
    OtherExport => state_file = obs.start_file

\* C40: an import run whose export lists no recipes ends at once: no login, no
\* gateway call, no classifier call, and the state file and the account are as
\* the run found them, whatever the state file holds
C40_EmptyExportDoesNothing ==
    (tool = "import" /\ run > 0 /\ export_data.all_recipes = <<>>) =>
        /\ pc = "done"
        /\ call = NoCall
        /\ obs.attempted = {} /\ obs.sent = <<>>
        /\ state_file = obs.start_file
        /\ remote = obs.start_remote

\* a run on an export without recipes has ended; the state file it found, and
\* loaded, holds the progress of an earlier import
C40_Witness ==
    /\ tool = "import" /\ run > 0 /\ export_data.all_recipes = <<>> /\ pc = "done"
    /\ state_file.kind = "json"
    /\ DOMAIN state_file.data.fetched_recipes = {1}
    /\ DOMAIN obs.loaded.fetched_recipes = {1}

====
